---- MODULE Spec2Model ----
(***************************************************************************)
(* A model of airtable_scraper: the two-stage bootstrap of AirtableScraper, *)
(* its lazy accessors, the column-type driven row materialization, and the  *)
(* export calls.                                                            *)
(*                                                                          *)
(* JSON values (and the Python values the code derives from them) are       *)
(* tagged records: [k |-> "null"], [k |-> "bool", v |-> b],                 *)
(* [k |-> "int", v |-> n], [k |-> "float", v |-> text], [k |-> "str",       *)
(* v |-> text], [k |-> "list", v |-> <<items>>] and [k |-> "dict",          *)
(* v |-> << <<key, value>>, ... >>] (insertion ordered, as Python dicts).   *)
(* A text is a sequence of fragments (characters, or words the program      *)
(* never splits).  An exception is the value Raised(kind).                  *)
(***************************************************************************)
EXTENDS Integers, Sequences, FiniteSets, TLC

VARIABLES
    pc,        \* where the session is: in __init__ ("new", "page", "url", "headers"),
              \* constructed ("done"), or __init__ raised ("raised"); in a
              \* with-block ("entered"), out of it ("exited"), torn down ("deleted")
    timezone,  \* self.timezone
    page,      \* self.__page: what the patterns find in the first-stage page
    new_url,   \* self._new_url
    headers,   \* self._headers
    data_,     \* self._data: the decoded second-stage response
    table,     \* self.__table
    status,    \* self.__status
    fetches,   \* HTTP requests issued so far
    reads,     \* the first value each of data, column_by_id, dtypes returned
    out,       \* the last call: its name, arguments, outcome, writes, log
    files,     \* the files written so far, as <<path, content>>
    input      \* the arguments drawn for a library function applied on its own

vars == <<pc, timezone, page, new_url, headers, data_, table, status, fetches,
          reads, out, files, input>>

(***************************************************************************)
(* Values                                                                   *)
(***************************************************************************)
None == [k |-> "null"]
JBool(b) == [k |-> "bool", v |-> b]
JInt(n) == [k |-> "int", v |-> n]
JFloat(t) == [k |-> "float", v |-> t]
Str(t) == [k |-> "str", v |-> t]
JList(s) == [k |-> "list", v |-> s]
JDict(s) == [k |-> "dict", v |-> s]
Raised(what) == [k |-> "raise", v |-> what]

IsRaised(x) == x.k = "raise"

\* a field that was never assigned
Unset == [k |-> "unset"]

\* an exception in x passes through; otherwise the computation goes on with x
Try(x, F(_)) == IF IsRaised(x) THEN x ELSE F(x)

\* dict.keys(), dict[key] of a key that is there, list(dict.values())
Keys(d) == {d.v[i][1] : i \in 1..Len(d.v)}
Lookup(d, key) == d.v[CHOOSE i \in 1..Len(d.v) : d.v[i][1] = key][2]
Values(d) == [i \in 1..Len(d.v) |-> d.v[i][2]]

\* x.get(key): None for a missing key, AttributeError on anything that is no dict
Get(x, key) ==
    IF IsRaised(x) THEN x
    ELSE IF x.k # "dict" THEN Raised("AttributeError")
    ELSE IF key \in Keys(x) THEN Lookup(x, key)
    ELSE None

\* x[key] on a dict: KeyError for a missing key, TypeError on None
Item(x, key) ==
    IF IsRaised(x) THEN x
    ELSE IF x.k # "dict" THEN Raised("TypeError")
    ELSE IF key \in Keys(x) THEN Lookup(x, key)
    ELSE Raised("KeyError")

\* Python truthiness
Truthy(x) ==
    CASE x.k = "null" -> FALSE
      [] x.k = "bool" -> x.v
      [] x.k = "int" -> x.v # 0
      [] x.k = "float" -> x.v # <<"0",".","0">>
      [] x.k \in {"str", "list", "dict"} -> Len(x.v) > 0
      [] OTHER -> TRUE

(***************************************************************************)
(* Texts                                                                    *)
(***************************************************************************)
RECURSIVE Join(_, _)
\* sep.join(texts)
Join(sep, ts) ==
    IF Len(ts) = 0 THEN <<>>
    ELSE IF Len(ts) = 1 THEN ts[1]
    ELSE ts[1] \o sep \o Join(sep, Tail(ts))

\* text.replace(frag, "")
Remove(t, frag) == SelectSeq(t, LAMBDA c : c # frag)

\* f'"{text}"'
Quote(t) == <<"\"">> \o t \o <<"\"">>

RECURSIVE LStrip(_)
LStrip(t) == IF Len(t) > 0 /\ Head(t) = " " THEN LStrip(Tail(t)) ELSE t

RECURSIVE RStrip(_)
RStrip(t) ==
    IF Len(t) > 0 /\ t[Len(t)] = " " THEN RStrip(SubSeq(t, 1, Len(t) - 1)) ELSE t

\* text.strip()
Strip(t) == RStrip(LStrip(t))

Pad2(n) == IF n < 10 THEN "0" \o ToString(n) ELSE ToString(n)

RECURSIVE Repr(_)
\* repr(x), which str(x) is for everything but a str
Repr(x) ==
    CASE x.k = "null" -> <<"None">>
      [] x.k = "bool" -> IF x.v THEN <<"True">> ELSE <<"False">>
      [] x.k = "int" -> <<ToString(x.v)>>
      [] x.k = "float" -> x.v
      [] x.k = "str" -> <<"'">> \o x.v \o <<"'">>
      [] x.k = "list" ->
            <<"[">> \o Join(<<",", " ">>, [i \in 1..Len(x.v) |-> Repr(x.v[i])]) \o <<"]">>
      [] x.k = "dict" ->
            <<"{">> \o Join(<<",", " ">>,
                  [i \in 1..Len(x.v) |->
                      <<"'", x.v[i][1], "'", ":", " ">> \o Repr(x.v[i][2])]) \o <<"}">>

\* str(x)
PyStr(x) == IF x.k = "str" THEN x.v ELSE Repr(x)

(***************************************************************************)
(* typing.py                                                                *)
(***************************************************************************)
\* join_list_like(lst, sep) on a sequence of values
join_list_like(lst, sep) ==
    IF Len(lst) = 0 THEN <<>>
    ELSE Join(sep, [i \in 1..Len(lst) |->
                      IF lst[i].k = "null" THEN <<>> ELSE PyStr(lst[i])])

\* none_filter(x)
none_filter(x) == IF x.k # "null" THEN Str(PyStr(x)) ELSE Str(<<>>)

\* the %B of strftime
MonthNames == [m \in 1..12 |->
    <<"January", "February", "March", "April", "May", "June", "July",
      "August", "September", "October", "November", "December">>[m]]
\* the zones pytz knows, as far as the model goes
Zones == {"UTC", "America/New_York", "Asia/Tokyo"}

\* An ISO-8601 instant as returned by Airtable, "YYYY-MM-DDThh:mm:ss.fffZ"
IsoText(y, m, d, h, mi) ==
    <<ToString(y), "-", Pad2(m), "-", Pad2(d), "T", Pad2(h), ":", Pad2(mi), ":",
      "00", ".", "000", "Z">>

\* datetime.strptime(value, "%Y-%m-%dT%H:%M:%S.%f%z") succeeds
IsIso(t) ==
    /\ Len(t) = 14
    /\ <<t[2], t[4], t[6], t[8], t[10], t[12], t[14]>> = <<"-", "-", "T", ":", ":", ".", "Z">>
    /\ \E y \in 1900..2100 : t[1] = ToString(y)
    /\ \E m \in 1..12 : t[3] = Pad2(m)
    /\ \E d \in 1..31 : t[5] = Pad2(d)
    /\ \E h \in 0..23 : t[7] = Pad2(h)
    /\ \E mi \in 0..59 : t[9] = Pad2(mi)

\* Texts that dateutil's parse() accepts although they are no ISO instants.
DateLike == {<<"12">>, <<"May">>, <<"2024", "-", "01", "-", "01">>}

\* is_date(string): dateutil.parser.parse(string) does not raise ValueError
is_date(t) == IsIso(t) \/ t \in DateLike

IsLeap(y) == (y % 4 = 0 /\ y % 100 # 0) \/ y % 400 = 0
DaysIn(y, m) ==
    IF m = 2 THEN (IF IsLeap(y) THEN 29 ELSE 28)
    ELSE IF m \in {4, 6, 9, 11} THEN 30 ELSE 31

\* a datetime is [y, m, d, h, mi]; timedelta(days=1) forwards and backwards
NextDay(dt) ==
    IF dt.d < DaysIn(dt.y, dt.m) THEN [dt EXCEPT !.d = dt.d + 1]
    ELSE IF dt.m < 12 THEN [dt EXCEPT !.d = 1, !.m = dt.m + 1]
    ELSE [dt EXCEPT !.d = 1, !.m = 1, !.y = dt.y + 1]
PrevDay(dt) ==
    IF dt.d > 1 THEN [dt EXCEPT !.d = dt.d - 1]
    ELSE IF dt.m > 1 THEN [dt EXCEPT !.d = DaysIn(dt.y, dt.m - 1), !.m = dt.m - 1]
    ELSE [dt EXCEPT !.d = 31, !.m = 12, !.y = dt.y - 1]

\* pytz: the zone's offset from UTC in hours at a UTC instant of month m
\* (New York: EDT in June and July, EST in December to February, the months
\* the instants of the model lie in)
UtcOffset(tz, m) ==
    CASE tz = "UTC" -> 0
      [] tz = "Asia/Tokyo" -> 9
      [] tz = "America/New_York" -> IF m \in {6, 7} THEN -4 ELSE -5

\* dt_utc.astimezone(timezone(tz))
astimezone(dt, tz) ==
    LET h == dt.h + UtcOffset(tz, dt.m)
    IN  IF h < 0 THEN [PrevDay(dt) EXCEPT !.h = h + 24]
        ELSE IF h > 23 THEN [NextDay(dt) EXCEPT !.h = h - 24]
        ELSE [dt EXCEPT !.h = h]

\* datetime.strptime(value, "%Y-%m-%dT%H:%M:%S.%f%z").replace(tzinfo=utc)
strptime(t) ==
    [y |-> CHOOSE y \in 1900..2100 : t[1] = ToString(y),
     m |-> CHOOSE m \in 1..12 : t[3] = Pad2(m),
     d |-> CHOOSE d \in 1..31 : t[5] = Pad2(d),
     h |-> CHOOSE h \in 0..23 : t[7] = Pad2(h),
     mi |-> CHOOSE mi \in 0..59 : t[9] = Pad2(mi)]

\* dt.strftime("%B %d, %Y")
strftime_date(dt) == <<MonthNames[dt.m], " ", Pad2(dt.d), ",", " ", ToString(dt.y)>>

\* dt.strftime("%m/%d/%Y %I:%M%p").lower()
strftime_stamp(dt) ==
    <<Pad2(dt.m), "/", Pad2(dt.d), "/", ToString(dt.y), " ",
      Pad2(IF dt.h % 12 = 0 THEN 12 ELSE dt.h % 12), ":", Pad2(dt.mi),
      IF dt.h < 12 THEN "am" ELSE "pm">>

\* the two strftime calls of cast_to_str without the timedelta(days=1)
format_dt_mut(dt, date_only) ==
    IF date_only THEN Str(strftime_date(dt)) ELSE Str(strftime_stamp(dt))

\* the two strftime calls of cast_to_str
format_dt(dt, date_only) ==
    IF date_only THEN Str(strftime_date(NextDay(dt))) ELSE Str(strftime_stamp(dt))

\* cast_to_str(value, sep=",", tz=tz, date_only=date_only): a text, or Raised
cast_to_str(value, tz, date_only) ==
    IF value.k = "null" THEN Str(<<>>)
    ELSE IF value.k = "str" /\ is_date(value.v) THEN
        IF ~IsIso(value.v) THEN Raised("ValueError")
        ELSE IF tz \notin Zones THEN Raised("UnknownTimeZoneError")
        ELSE format_dt(astimezone(strptime(value.v), tz), date_only)
    ELSE IF value.k = "list" THEN Str(join_list_like(value.v, <<",">>))
    ELSE IF value.k = "dict" THEN Str(join_list_like(Values(value), <<",">>))
    ELSE Str(PyStr(value))

(***************************************************************************)
(* Python dicts built by the code: [k |-> "map", v |-> << <<key, value>> >>]*)
(* with values as keys, in insertion order.                                 *)
(***************************************************************************)
Map(pairs) == [k |-> "map", v |-> pairs]
MapKeys(m) == {m.v[i][1] : i \in 1..Len(m.v)}
MapAt(m, key) == m.v[CHOOSE i \in 1..Len(m.v) : m.v[i][1] = key][2]
MapValues(m) == [i \in 1..Len(m.v) |-> m.v[i][2]]
\* m[key] = value: a new key goes last, an old key keeps its place
MapPut(m, key, value) ==
    IF key \in MapKeys(m)
    THEN Map([i \in 1..Len(m.v) |-> IF m.v[i][1] = key THEN <<key, value>> ELSE m.v[i]])
    ELSE Map(Append(m.v, <<key, value>>))
\* m.get(key) that yields None where m is None
MapGet_mut(m, key) ==
    IF m.k # "map" THEN None
    ELSE IF key.k \in {"list", "dict"} THEN Raised("TypeError")
    ELSE IF key \in MapKeys(m) THEN MapAt(m, key)
    ELSE None

\* m.get(key) where m may be None
MapGet(m, key) ==
    IF m.k # "map" THEN Raised("AttributeError")
    ELSE IF key.k \in {"list", "dict"} THEN Raised("TypeError")
    ELSE IF key \in MapKeys(m) THEN MapAt(m, key)
    ELSE None

\* for item in x
Iter(x) ==
    CASE x.k = "list" -> x.v
      [] x.k = "str" -> [i \in 1..Len(x.v) |-> Str(<<x.v[i]>>)]
      [] x.k = "dict" -> [i \in 1..Len(x.v) |-> Str(<<x.v[i][1]>>)]
      [] OTHER -> <<>>
Iterable(x) == x.k \in {"list", "str", "dict"}

\* the first exception among a sequence of results
AnyRaised(xs) == \E i \in 1..Len(xs) : IsRaised(xs[i])
FirstRaised(xs) == xs[CHOOSE i \in 1..Len(xs) : IsRaised(xs[i]) /\ \A j \in 1..(i - 1) : ~IsRaised(xs[j])]

\* the first exception of xs passes through; otherwise go on with all of xs
TryAll(xs, F(_)) == IF AnyRaised(xs) THEN FirstRaised(xs) ELSE F(xs)

(***************************************************************************)
(* table_utils.py                                                           *)
(***************************************************************************)
\* the inner try of flatten_lookup_column_r with the lookup skipped
flatten_resolve_mut(item, type_options) == item

\* the inner try of flatten_lookup_column_r: type_options[item], else item
flatten_resolve(item, type_options) ==
    IF type_options.k = "map" /\ item \in MapKeys(type_options)
    THEN MapAt(type_options, item)
    ELSE item

RECURSIVE flatten_lookup_column_r(_, _)
\* flatten_lookup_column_r(lst, type_options, flat_list=[])
flatten_lookup_column_r(lst, type_options) ==
    IF Len(lst) = 0 THEN <<>>
    ELSE (IF Head(lst).k = "dict" THEN <<Get(Head(lst), "foreignRowDisplayName")>>
          ELSE IF Head(lst).k = "list"
               THEN flatten_lookup_column_r(Head(lst).v, type_options)
          ELSE <<flatten_resolve(Head(lst), type_options)>>)
         \o flatten_lookup_column_r(Tail(lst), type_options)

\* r["cellValuesByColumnId"]
RowCells(r) == Item(r, "cellValuesByColumnId")

\* ColumnTypeAnalyzer.analyze runs through: every row has its cells, every
\* cell's column id is a key of col_id_map
analyze_ok(rows, col_id_map) ==
    /\ Iterable(rows)
    /\ col_id_map.k = "map"
    /\ \A i \in 1..Len(Iter(rows)) :
          /\ ~IsRaised(RowCells(Iter(rows)[i]))
          /\ RowCells(Iter(rows)[i]).k = "dict"
          /\ \A key \in Keys(RowCells(Iter(rows)[i])) : Str(<<key>>) \in MapKeys(col_id_map)

RECURSIVE analyze_visits(_, _)
\* the two loops of analyze from row i on: the cells (row index, key) in the
\* order they are visited
analyze_visits(rows, i) ==
    IF i > Len(rows) THEN <<>>
    ELSE [n \in 1..Len(RowCells(rows[i]).v) |-> <<i, RowCells(rows[i]).v[n][1]>>]
         \o analyze_visits(rows, i + 1)

\* the cells a sequence of visits went to
Visited(visits) == {visits[n] : n \in 1..Len(visits)}

\* the cells of analyze that stops after the first row
CellsOfType_mut(rows, col_id_map, t) ==
    {c \in {<<1, key>> : key \in IF Len(rows.v) = 0 THEN {} ELSE Keys(RowCells(rows.v[1]))} :
        MapAt(col_id_map, Str(<<c[2]>>)).type = t}

\* the cells (row index, key) of columns of Airtable type t
CellsOfType(rows, col_id_map, t) ==
    {c \in Visited(analyze_visits(rows.v, 1)) : MapAt(col_id_map, Str(<<c[2]>>)).type = t}

\* the type collection of analyze: Airtable type -> set of type(v) over cells
type_collection(rows, col_id_map, cells(_)) ==
    [k |-> "dtypes",
     v |-> [t \in {t \in {MapValues(col_id_map)[i].type : i \in 1..Len(col_id_map.v)} :
                        cells(t) # {}}
              |-> {Lookup(RowCells(rows.v[c[1]]), c[2]).k : c \in cells(t)}]]

\* ColumnTypeAnalyzer(rows, col_id_map).analyze()[0]
analyze(rows, col_id_map) ==
    IF ~analyze_ok(rows, col_id_map) THEN Raised("analyze")
    ELSE type_collection(rows, col_id_map, LAMBDA t : CellsOfType(rows, col_id_map, t))

(***************************************************************************)
(* _models.py                                                               *)
(***************************************************************************)
\* ColumnDefinition(name=, type=, resultType=, typeOptions=): pydantic
\* validates name: str, type: str, resultType: str | None,
\* typeOptions: dict[str, str] | None
ColumnDefinition(name, type, resultType, typeOptions) ==
    IF \/ name.k # "str" \/ type.k # "str"
       \/ resultType.k \notin {"str", "null"}
       \/ /\ typeOptions.k = "map"
          /\ \E i \in 1..Len(typeOptions.v) :
                typeOptions.v[i][1].k # "str" \/ typeOptions.v[i][2].k # "str"
    THEN Raised("ValidationError")
    ELSE [k |-> "coldef", name |-> name.v, type |-> type.v,
          resultType |-> resultType, typeOptions |-> typeOptions]

\* string.punctuation.replace("_", "")
punct == {"!", "\"", "#", "$", "%", "&", "'", "(", ")", "*", "+", ",", "-", ".",
          "/", ":", ";", "<", "=", ">", "?", "@", "[", "\\", "]", "^", "{",
          "|", "}", "~"}
lower(c) == CASE c = "A" -> "a" [] c = "B" -> "b" [] c = "C" -> "c" [] c = "N" -> "n"
              [] OTHER -> c

\* text.lower().translate(str.maketrans("", "", punct)).replace(" ", "_")
fold(t) ==
    [i \in 1..Len(SelectSeq(t, LAMBDA c : c \notin punct)) |->
        IF SelectSeq(t, LAMBDA c : c \notin punct)[i] = " " THEN "_"
        ELSE lower(SelectSeq(t, LAMBDA c : c \notin punct)[i])]

\* name.strip().lower().translate(str.maketrans("", "", punct)).replace(" ", "_")
field_name(name) == fold(Strip(name))

Digits == {"0", "1", "2", "3", "4", "5", "6", "7", "8", "9"}
PyKeywords == {<<"i", "f">>, <<"i", "n">>, <<"a", "s">>}
\* the type names eval() resolves in _models.py: the builtins (and Any)
EvalNames == {"str", "int", "float", "bool", "list", "dict"}

\* eval(model_str) for the field names and, per field, the kinds of its type
row_model(names, kinds) ==
    IF \E i \in 1..Len(names) :
          \/ names[i] = <<>>
          \/ names[i] \in PyKeywords
          \/ names[i][1] \in Digits
          \/ \E j \in 1..Len(names) : j # i /\ names[j] = names[i]
    THEN Raised("SyntaxError")
    ELSE IF \E i \in 1..Len(names) : \E kd \in kinds[i] : kd \notin EvalNames
         THEN Raised("NameError")
    ELSE IF \E i \in 1..Len(names) : names[i][1] = "_"
         THEN Raised("NameError")
    ELSE [k |-> "model", fields |-> names]

\* create_row_model(table_dtypes, col_id_map): the Row model's field names in
\* order, or the exception of building or evaluating the create_model string
create_row_model(table_dtypes, col_id_map) ==
    IF col_id_map.k # "map" THEN Raised("AttributeError")
    ELSE IF Len(col_id_map.v) > 0 /\ table_dtypes.k # "dtypes" THEN Raised("AttributeError")
    ELSE row_model([i \in 1..Len(col_id_map.v) |-> field_name(col_id_map.v[i][2].name)],
                   [i \in 1..Len(col_id_map.v) |->
                       IF col_id_map.v[i][2].type \in DOMAIN table_dtypes.v
                       THEN table_dtypes.v[col_id_map.v[i][2].type] ELSE {}])

(***************************************************************************)
(* airtable_scraper.py: schema resolution and row materialization           *)
(***************************************************************************)
\* the options comprehension of _get_column_definition and its try/except:
\* {choice["id"]: choice["name"] for choice in typeOptions["choices"].values()}
RECURSIVE options_of(_, _)
options_of(choices, acc) ==
    IF Len(choices) = 0 THEN acc
    ELSE IF \/ IsRaised(Item(Head(choices), "id"))
            \/ IsRaised(Item(Head(choices), "name"))
            \/ Item(Head(choices), "id").k \in {"list", "dict"}
         THEN None
    ELSE options_of(Tail(choices),
                    MapPut(acc, Item(Head(choices), "id"), Item(Head(choices), "name")))

\* lines 404-410: the options of a column, None where the comprehension raises
choices_of(choices) ==
    IF IsRaised(choices) \/ choices.k # "dict" THEN None
    ELSE options_of(Values(choices), Map(<<>>))
column_options(type_options) == choices_of(Item(type_options, "choices"))

\* lines 413-418: the id and the validated definition of one column
entry_of(id, name, type, result_type, options) ==
    TryAll(<<result_type, name, type>>, LAMBDA xs :
        Try(ColumnDefinition(name, type, result_type, options), LAMBDA def :
            IF IsRaised(id) THEN id
            ELSE IF id.k \in {"list", "dict"} THEN Raised("TypeError")
            ELSE [k |-> "entry", id |-> id, def |-> def]))

\* lines 400-411: the options and result type of col["typeOptions"]
entry(type_options, id, name, type) ==
    IF IsRaised(type_options) THEN type_options
    ELSE IF ~Truthy(type_options) THEN entry_of(id, name, type, None, None)
    ELSE entry_of(id, name, type, Get(type_options, "resultType"),
                  column_options(type_options))

\* one pass of the loop body of _get_column_definition
column_entry(col) ==
    entry(Item(col, "typeOptions"), Item(col, "id"), Item(col, "name"), Item(col, "type"))

RECURSIVE column_dict(_, _)
\* the loop of _get_column_definition
column_dict(columns, acc) ==
    IF Len(columns) = 0 THEN acc
    ELSE Try(column_entry(Head(columns)), LAMBDA e :
             column_dict(Tail(columns), MapPut(acc, e.id, e.def)))

\* _get_column_definition(): the {id: ColumnDefinition} map, or Raised
get_column_definition(tbl) ==
    IF ~Truthy(tbl) THEN Raised("RuntimeError")
    ELSE IF tbl.k # "dict" THEN Raised("AttributeError")
    ELSE IF "columns" \notin Keys(tbl) THEN Raised("RuntimeError")
    ELSE IF ~Iterable(Get(tbl, "columns")) THEN Raised("TypeError")
    ELSE column_dict(Iter(Get(tbl, "columns")), Map(<<>>))

\* the comprehension of __get_appBlanket_userInfoById
RECURSIVE users_of(_, _)
users_of(users, acc) ==
    IF Len(users) = 0 THEN acc
    ELSE IF \/ IsRaised(Item(Head(users), "id"))
            \/ Item(Head(users), "id").k \in {"list", "dict"}
            \/ Item(Head(users), "firstName").k # "str"
            \/ Item(Head(users), "lastName").k # "str"
         THEN None
    ELSE users_of(Tail(users),
                  MapPut(acc, Item(Head(users), "id"),
                         Str(Item(Head(users), "firstName").v \o <<" ">>
                             \o Item(Head(users), "lastName").v)))

user_map(info) ==
    IF IsRaised(info) \/ info.k # "dict" THEN None
    ELSE users_of(Values(info), Map(<<>>))

\* __get_appBlanket_userInfoById(): the {id: "First Last"} map, or None
get_appBlanket_userInfoById(tbl) ==
    IF ~Truthy(tbl) THEN None
    ELSE user_map(Get(Get(tbl, "appBlanket"), "userInfoById"))

\* raw_columns_json and raw_rows_json
raw_json(tbl, key) ==
    IF ~Truthy(tbl) THEN None
    ELSE IF tbl.k # "dict" THEN Raised("AttributeError")
    ELSE IF key \notin Keys(tbl) THEN None
    ELSE Get(tbl, key)
raw_columns_json(tbl) == raw_json(tbl, "columns")
raw_rows_json(tbl) == raw_json(tbl, "rows")

\* sep.join(parts) of results that must all be str
join_texts(sep, parts) ==
    IF AnyRaised(parts) THEN FirstRaised(parts)
    ELSE IF \E i \in 1..Len(parts) : parts[i].k # "str" THEN Raised("TypeError")
    ELSE Str(Join(sep, [i \in 1..Len(parts) |-> parts[i].v]))

\* ",".join([f[key] for f in cell_val]): a text, or Raised
join_field(cell_val, key) ==
    IF ~Iterable(cell_val) THEN Raised("TypeError")
    ELSE join_texts(<<",">>, [i \in 1..Len(Iter(cell_val)) |-> Item(Iter(cell_val)[i], key)])

\* ",".join([col_def.typeOptions.get(val) for val in cell_val])
join_options(cell_val, type_options) ==
    IF ~Iterable(cell_val) THEN Raised("TypeError")
    ELSE join_texts(<<",">>,
             [i \in 1..Len(Iter(cell_val)) |-> MapGet(type_options, Iter(cell_val)[i])])

\* "".join([section["insert"] for section in doc]).strip()
sections(doc) ==
    IF IsRaised(doc) THEN doc
    ELSE IF ~Iterable(doc) THEN Raised("TypeError")
    ELSE Try(join_texts(<<>>, [i \in 1..Len(Iter(doc)) |-> Item(Iter(doc)[i], "insert")]),
             LAMBDA t : Str(Strip(t.v)))
rich_text(cell_val) == sections(Get(cell_val, "documentValue"))

\* f'"{x}"' of a result, an exception passing through
Quoted(x) == IF IsRaised(x) THEN x ELSE Str(Quote(PyStr(x)))

\* join_list_like(flatten_lookup_column_r(list(by_row.values()), ...), ",")
lookup_text(by_row, type_options) ==
    IF IsRaised(by_row) THEN by_row
    ELSE IF by_row.k # "dict" THEN Raised("AttributeError")
    ELSE Str(join_list_like(flatten_lookup_column_r(Values(by_row), type_options), <<",">>))

\* the lookup handler
lookup_handler(cell_val, type_options) ==
    Quoted(lookup_text(Item(cell_val, "valuesByForeignRowId"), type_options))

\* the Airtable types of self.__type_handlers
KnownTypes ==
    {<<"autoNumber">>, <<"barcode">>, <<"button">>, <<"checkbox">>, <<"collaborator">>,
     <<"computation">>, <<"count">>, <<"date">>, <<"foreignKey">>, <<"formula">>,
     <<"lookup">>, <<"multilineText">>, <<"multipleAttachment">>, <<"multiSelect">>,
     <<"number">>, <<"phone">>, <<"rating">>, <<"richText">>, <<"rollup">>,
     <<"select">>, <<"text">>}

\* self.__type_handlers[type](cell_val), with the col_def, user_by_id and
\* timezone its lambda closes over: the decoded value, or Raised
type_handler(type, cell_val, col_def, user_by_id, tz) ==
    CASE type \in {<<"autoNumber">>, <<"count">>, <<"number">>, <<"phone">>,
                   <<"rating">>, <<"text">>} -> cell_val
      [] type = <<"barcode">> -> Get(cell_val, "text")
      [] type = <<"button">> -> Get(cell_val, "url")
      [] type = <<"checkbox">> -> IF Truthy(cell_val) THEN Str(<<"checked">>) ELSE None
      [] type \in {<<"collaborator">>, <<"computation">>} -> MapGet(user_by_id, cell_val)
      [] type = <<"date">> -> Quoted(cast_to_str(cell_val, tz, TRUE))
      [] type = <<"foreignKey">> -> Quoted(join_field(cell_val, "foreignRowDisplayName"))
      [] type = <<"formula">> -> cast_to_str(cell_val, tz, FALSE)
      [] type = <<"lookup">> -> lookup_handler(cell_val, col_def.typeOptions)
      [] type = <<"multilineText">> -> Quoted(cell_val)
      [] type = <<"multipleAttachment">> -> Quoted(join_field(cell_val, "filename"))
      [] type = <<"multiSelect">> -> Quoted(join_options(cell_val, col_def.typeOptions))
      [] type = <<"richText">> -> Quoted(rich_text(cell_val))
      [] type = <<"rollup">> -> Quoted(cast_to_str(cell_val, tz, FALSE))
      [] type = <<"select">> -> MapGet(col_def.typeOptions, cell_val)

\* lines 493-501 with the raw value of an unknown type dropped
decode_cell_mut(cell_val, col_def, user_by_id, tz) ==
    IF col_def.type \in KnownTypes
    THEN type_handler(col_def.type, cell_val, col_def, user_by_id, tz)
    ELSE None

\* lines 493-501: the handler's result, or the raw value of an unknown type
decode_cell(cell_val, col_def, user_by_id, tz) ==
    IF col_def.type \in KnownTypes
    THEN type_handler(col_def.type, cell_val, col_def, user_by_id, tz)
    ELSE cell_val

\* the warning of line 498 is logged for a cell of this column
unknown_type_warning(col_def) == col_def.type \notin KnownTypes

\* a lazy accessor without its try/except
guarded_mut(x) == x

\* the try/except of a lazy accessor: log the error and return None
guarded(x) == IF IsRaised(x) THEN None ELSE x

\* the column_by_id property
column_by_id(tbl) == guarded(get_column_definition(tbl))

\* the body of the dtypes property
dtypes_body(tbl) ==
    Try(raw_rows_json(tbl), LAMBDA rows : analyze(rows, column_by_id(tbl)))

\* the dtypes property
dtypes(tbl) == guarded(dtypes_body(tbl))

\* a computation's result (a value or Raised) and the number of "unknown
\* Airtable column type" warnings it logged
Run(res, warned) == [k |-> "run", res |-> res, warned |-> warned]

\* a run that raised ends there; otherwise the computation goes on from it
After(run, F(_)) == IF IsRaised(run.res) THEN run ELSE F(run)

RECURSIVE row_vals(_, _, _, _, _, _)
\* lines 482-503: the loop over one row's cells; row_vals maps field names
\* to decoded values
row_vals(cells, cols, user_by_id, tz, acc, warned) ==
    IF Len(cells) = 0 THEN Run(acc, warned)
    ELSE IF cols.k # "map" \/ Str(<<Head(cells)[1]>>) \notin MapKeys(cols)
         THEN Run(Raised("AttributeError"), warned)
    ELSE After(Run(decode_cell(Head(cells)[2], MapAt(cols, Str(<<Head(cells)[1]>>)),
                               user_by_id, tz),
                   IF unknown_type_warning(MapAt(cols, Str(<<Head(cells)[1]>>)))
                   THEN warned + 1 ELSE warned),
               LAMBDA run :
                   row_vals(Tail(cells), cols, user_by_id, tz,
                            MapPut(acc, field_name(MapAt(cols, Str(<<Head(cells)[1]>>)).name),
                                   run.res),
                            run.warned))

\* Row(**row_vals) that holds the fields of row_vals alone
Row_mut(model, vals) ==
    [k |-> "row",
     v |-> SelectSeq([i \in 1..Len(model.fields) |->
                         <<model.fields[i],
                           IF model.fields[i] \in MapKeys(vals)
                           THEN MapAt(vals, model.fields[i]) ELSE Unset>>],
                     LAMBDA f : f[2] # Unset)]

\* Row(**row_vals): every field of the model, None where row_vals has none
Row(model, vals) ==
    [k |-> "row",
     v |-> [i \in 1..Len(model.fields) |->
              <<model.fields[i],
                IF model.fields[i] \in MapKeys(vals) THEN MapAt(vals, model.fields[i])
                ELSE None>>]]

RECURSIVE row_objects(_, _, _, _, _, _, _)
\* lines 478-505: the loop over the rows
row_objects(row_items, model, cols, user_by_id, tz, acc, warned) ==
    IF Len(row_items) = 0 THEN Run(JList(acc), warned)
    ELSE After(row_vals(Head(row_items).v, cols, user_by_id, tz, Map(<<>>), warned),
               LAMBDA run :
                   row_objects(Tail(row_items), model, cols, user_by_id, tz,
                               Append(acc, Row(model, run.res)), run.warned))

\* lines 474-475 with the rows taken from the last to the first
rows_list_mut(rows) ==
    IF ~Iterable(rows) THEN Raised("TypeError")
    ELSE TryAll([i \in 1..Len(Iter(rows)) |-> RowCells(Iter(rows)[Len(Iter(rows)) + 1 - i])],
                LAMBDA cells :
                    IF \E i \in 1..Len(cells) : cells[i].k # "dict" THEN Raised("AttributeError")
                    ELSE JList(cells))

\* lines 474-475: every row's cells, and their items()
rows_list(rows) ==
    IF ~Iterable(rows) THEN Raised("TypeError")
    ELSE TryAll([i \in 1..Len(Iter(rows)) |-> RowCells(Iter(rows)[i])], LAMBDA cells :
             IF \E i \in 1..Len(cells) : cells[i].k # "dict" THEN Raised("AttributeError")
             ELSE JList(cells))

\* lines 472-505 of _get_table_data, given what lines 427 and 472-474 read
table_data(model, rows, cols, user_by_id, tz) ==
    IF IsRaised(model) THEN Run(model, 0)
    ELSE After(Run(Try(rows, LAMBDA r : rows_list(r)), 0), LAMBDA run :
             row_objects(run.res.v, model, cols, user_by_id, tz, <<>>, 0))

\* _get_table_data(): the list of Row objects or the exception, with the
\* warnings logged on the way
get_table_data_run(tbl, tz) ==
    table_data(create_row_model(dtypes(tbl), column_by_id(tbl)), raw_rows_json(tbl),
               column_by_id(tbl), get_appBlanket_userInfoById(tbl), tz)

\* _get_table_data(): the list of Row objects, or Raised
get_table_data(tbl, tz) == get_table_data_run(tbl, tz).res

\* row.model_dump(): the row's fields as a map
model_dump(row) == Map([i \in 1..Len(row.v) |-> <<Str(row.v[i][1]), row.v[i][2]>>])

(***************************************************************************)
(* airtable_scraper.py: bootstrap and the id extractors                     *)
(***************************************************************************)
\* re.search(...) found nothing
NoMatch == [k |-> "nomatch"]

\* re.search(pattern, page).group(1) for the pattern that fills page[field]
search(pg, field) == IF pg[field] = NoMatch THEN Raised("AttributeError") ELSE pg[field]

\* url_with_params.replace("u002F", "").replace("\\", "/")
unescape(t) ==
    [i \in 1..Len(Remove(t, "u002F")) |->
        IF Remove(t, "u002F")[i] = "\\" THEN "/" ELSE Remove(t, "u002F")[i]]

\* lines 230-234
new_url_of(url_with_params) ==
    IF IsRaised(url_with_params) THEN url_with_params
    ELSE IF ~Truthy(url_with_params) THEN Raised("RuntimeError")
    ELSE Str(<<"https://airtable.com">> \o unescape(url_with_params.v))

\* _get_new_url() that makes do without the fragment
get_new_url_mut(pg) ==
    IF pg.urlWithParams = NoMatch THEN Str(<<"https://airtable.com">>)
    ELSE new_url_of(search(pg, "urlWithParams"))

\* _get_new_url()
get_new_url(pg) == new_url_of(search(pg, "urlWithParams"))

\* lines 258-262: json.loads of the headers object literal
auth_of(dirty_auth_json) ==
    IF IsRaised(dirty_auth_json) THEN dirty_auth_json
    ELSE IF dirty_auth_json.k = "str" THEN Raised("JSONDecodeError")
    ELSE dirty_auth_json

\* _get_auth_data()
get_auth_data(pg) == auth_of(search(pg, "headers"))

AuthKeys == <<"x-early-prefetch", "x-user-locale", "x-airtable-application-id",
              "x-airtable-page-load-id", "X-Requested-With",
              "x-airtable-inter-service-client">>

\* the headers of line 29
base_headers == JDict(<< <<"Accept", Str(<<"*/*">>)>>, <<"Host", Str(<<"airtable.com">>)>> >>)

\* lines 359-380
full_headers(auth_json, tz) ==
    IF IsRaised(auth_json) THEN auth_json
    ELSE TryAll([i \in 1..Len(AuthKeys) |-> Item(auth_json, AuthKeys[i])], LAMBDA fields :
             JDict(base_headers.v \o << <<"x-time-zone", Str(<<tz>>)>> >>
                   \o [i \in 1..Len(AuthKeys) |-> <<AuthKeys[i], fields[i]>>]))

\* _get_full_headers()
get_full_headers(pg, tz) == full_headers(get_auth_data(pg), tz)

\* line 47: the second-stage response reports success
is_success(resp) == Get(resp, "msg") = Str(<<"SUCCESS">>)

Session(tbl, st) == [k |-> "session", table |-> tbl, status |-> st]

\* lines 46-52 that keep the table of a response that is no success
table_and_status_mut(resp) ==
    IF IsRaised(Get(resp, "msg")) THEN Get(resp, "msg")
    ELSE IF is_success(resp)
         THEN Try(Get(Get(resp, "data"), "table"), LAMBDA tbl : Session(tbl, "success"))
    ELSE IF IsRaised(Get(Get(resp, "data"), "table")) THEN Session(JDict(<<>>), "failed")
    ELSE Session(Get(Get(resp, "data"), "table"), "failed")

\* lines 46-52: the table and status of a decoded response, or Raised
table_and_status(resp) ==
    IF IsRaised(Get(resp, "msg")) THEN Get(resp, "msg")
    ELSE IF is_success(resp)
         THEN Try(Get(Get(resp, "data"), "table"), LAMBDA tbl : Session(tbl, "success"))
    ELSE Session(JDict(<<>>), "failed")

\* _get_app_id() without the branch on self._headers
get_app_id_mut(tbl, hdrs, pg) ==
    IF Truthy(tbl) THEN Get(tbl, "applicationId") ELSE search(pg, "applicationId")

\* _get_app_id()
get_app_id(tbl, hdrs, pg) ==
    IF Truthy(tbl) THEN Get(tbl, "applicationId")
    ELSE IF IsRaised(Get(hdrs, "x-airtable-application-id"))
         THEN Get(hdrs, "x-airtable-application-id")
    ELSE IF Truthy(Get(hdrs, "x-airtable-application-id"))
         THEN Get(hdrs, "x-airtable-application-id")
    ELSE search(pg, "applicationId")

\* view_id_list[view_id_list.index("view") + 1] of view_id.split("\\u002F")
view_at(parts) ==
    IF \A i \in 1..Len(parts) : parts[i] # "view" THEN Raised("ValueError")
    ELSE IF parts[Len(parts)] = "view"
            /\ \A i \in 1..(Len(parts) - 1) : parts[i] # "view"
         THEN Raised("IndexError")
    ELSE Str(<<parts[1 + CHOOSE i \in 1..Len(parts) :
                      parts[i] = "view" /\ \A j \in 1..(i - 1) : parts[j] # "view"]>>)
view_of_url(t) == view_at(Remove(t, "\\u002F"))

\* lines 304-308
first_view(view_id) ==
    IF IsRaised(view_id) THEN view_id
    ELSE IF view_id.k = "list"
         THEN (IF Len(view_id.v) = 0 THEN Raised("IndexError") ELSE view_id.v[1])
    ELSE view_id

\* _get_view_id()
get_view_id(tbl, pg) ==
    IF Truthy(tbl) THEN first_view(Get(tbl, "viewOrder"))
    ELSE Try(search(pg, "url"), LAMBDA url : view_of_url(url.v))

\* _get_request_id(), _get_share_id(), _get_table_id()
get_request_id(pg) == search(pg, "requestId")
get_share_id(pg) == search(pg, "sharedViewId")
get_table_id(tbl, pg) ==
    IF Truthy(tbl) THEN Get(tbl, "id") ELSE search(pg, "sharedViewTableId")

(***************************************************************************)
(* airtable_scraper.py: the lazy accessors                                  *)
(***************************************************************************)
Accessors == {"app_id", "column_definitions", "column_by_id", "data", "dtypes",
              "request_id", "share_id", "table_id", "view_id"}

\* what the try block of an accessor other than data evaluates to
accessor_body(a, tbl, hdrs, pg, tz) ==
    CASE a = "app_id" -> get_app_id(tbl, hdrs, pg)
      [] a = "column_definitions" ->
            Try(get_column_definition(tbl), LAMBDA cols : JList(MapValues(cols)))
      [] a = "column_by_id" -> get_column_definition(tbl)
      [] a = "dtypes" -> dtypes_body(tbl)
      [] a = "request_id" -> get_request_id(pg)
      [] a = "share_id" -> get_share_id(pg)
      [] a = "table_id" -> get_table_id(tbl, pg)
      [] a = "view_id" -> get_view_id(tbl, pg)

\* the try block of an accessor, with the warnings it logs
accessor_run(a, tbl, hdrs, pg, tz) ==
    IF a = "data" THEN get_table_data_run(tbl, tz)
    ELSE Run(accessor_body(a, tbl, hdrs, pg, tz), 0)

\* the property: its try block under "except Exception: log, return None"
accessor(a, tbl, hdrs, pg, tz) == guarded(accessor_run(a, tbl, hdrs, pg, tz).res)

\* an accessor that fetches again
accessor_requests_mut(a) == IF a = "dtypes" THEN 1 ELSE 0

\* the HTTP requests an accessor issues: none of them calls self._get
accessor_requests(a) == 0

(***************************************************************************)
(* airtable_scraper.py: the exports                                         *)
(***************************************************************************)
\* lines 243-249
object_params_of(url_with_params) ==
    IF IsRaised(url_with_params) THEN url_with_params
    ELSE IF ~Truthy(url_with_params) THEN Raised("RuntimeError")
    ELSE Str(<<unescape(url_with_params.v)[Len(unescape(url_with_params.v))]>>)

\* __get_stringified_object_params()
get_stringified_object_params(pg) == object_params_of(search(pg, "urlWithParams"))

\* lines 542-550 of __get_csv_from_download_csv: what must succeed before
\* the request is sent
download_params(pg) ==
    TryAll(<<get_auth_data(pg), get_stringified_object_params(pg),
             Item(get_auth_data(pg), "x-user-locale"),
             Item(get_auth_data(pg), "x-airtable-application-id")>>,
           LAMBDA params : None)

\* lines 559-564: the csv text of a 200, else the warning and None; the
\* warning formats json.loads(resp.content)
download_result(resp) ==
    IF IsRaised(resp) THEN resp
    ELSE IF resp.code = 200 THEN Str(resp.text)
    ELSE IF ~resp.json THEN Raised("JSONDecodeError")
    ELSE None

\* __get_csv_from_download_csv() when the endpoint answers resp
get_csv_from_download_csv(pg, resp) ==
    Try(download_params(pg), LAMBDA ok : download_result(resp))

\* line 563 is reached and formats its message: the warning is logged
download_warning(pg, resp) ==
    /\ ~IsRaised(download_params(pg))
    /\ ~IsRaised(resp)
    /\ resp.code # 200
    /\ resp.json

\* the request of __get_csv_from_download_csv is sent once its parameters
\* are there
download_requests(pg) == IF IsRaised(download_params(pg)) THEN 0 ELSE 1

\* lines 582-589 of to_csv, given self.data and self.column_by_id
manual_of(data, cols) ==
    IF data.k # "list" THEN Raised("TypeError")
    ELSE IF cols.k # "map" THEN Raised("AttributeError")
    ELSE Str(Join(<<",">>, [i \in 1..Len(cols.v) |-> cols.v[i][2].name]) \o <<"\n">>
             \o Join(<<"\n">>,
                     [i \in 1..Len(data.v) |->
                         Join(<<",">>, [j \in 1..Len(data.v[i].v) |->
                             IF data.v[i].v[j][2].k = "null" THEN <<>>
                             ELSE PyStr(data.v[i].v[j][2])])]))

\* lines 582-589 of to_csv: the manual serialization
manual_csv(tbl, tz) == manual_of(guarded(get_table_data(tbl, tz)), column_by_id(tbl))

\* lines 579-589 of to_csv: the downloaded text, else the manual one
csv_data(downloaded, tbl, tz) ==
    IF IsRaised(downloaded) \/ Truthy(downloaded) THEN downloaded
    ELSE manual_csv(tbl, tz)

\* "if path": None and the empty string are no path
given(path) == path.k = "path" /\ <<path.name, path.suffix>> # <<"", "">>

\* Path(path).suffix.lower()
suffix_lower(sfx) ==
    CASE sfx = ".CSV" -> ".csv" [] sfx = ".JSON" -> ".json" [] OTHER -> sfx

\* what an export call did: its result (a value or Raised) and its writes
Outcome(val, wrote) == [val |-> val, wrote |-> wrote]

\* lines 591-601 and 663-673 that write before they check the suffix
write_or_return_mut(data, path, suffix) ==
    IF IsRaised(data) THEN Outcome(data, {})
    ELSE IF ~given(path) THEN Outcome(data, {})
    ELSE Outcome(IF suffix_lower(path.suffix) # suffix THEN Raised("AssertionError")
                 ELSE None,
                 {<<path, data>>})

\* lines 591-601 and 663-673: check the suffix and write, or return the text
write_or_return(data, path, suffix) ==
    IF IsRaised(data) THEN Outcome(data, {})
    ELSE IF ~given(path) THEN Outcome(data, {})
    ELSE IF suffix_lower(path.suffix) # suffix THEN Outcome(Raised("AssertionError"), {})
    ELSE Outcome(None, {<<path, data>>})

\* to_csv(path) when the download endpoint answers resp
to_csv(path, resp, tbl, pg, tz) ==
    write_or_return(csv_data(get_csv_from_download_csv(pg, resp), tbl, tz), path, ".csv")

\* line 636: {k: v.replace('"', "") for k, v in item.items()}
unquote_row(row) ==
    Map([i \in 1..Len(row.v) |-> <<row.v[i][1], Str(Remove(row.v[i][2].v, "\""))>>])

\* lines 632-633: none_filter every value, then key the values by header
RECURSIVE rekey(_, _, _)
rekey(vals, header, acc) ==
    IF Len(vals) = 0 THEN acc
    ELSE rekey(Tail(vals), Tail(header), MapPut(acc, Str(Head(header)), none_filter(Head(vals))))

\* line 642 counting the rows from 0
index_rows_mut(rows) == Map([i \in 1..Len(rows) |-> <<Str(<<"row", ToString(i - 1)>>), rows[i]>>])

\* line 642: {f"row{i}": r for i, r in enumerate(rows, 1)}
index_rows(rows) == Map([i \in 1..Len(rows) |-> <<Str(<<"row", ToString(i)>>), rows[i]>>])

\* lines 638-642
oriented(orient, rows) == IF orient = "records" THEN JList(rows) ELSE index_rows(rows)

\* lines 635-636
unquoted(pass_to_json, rows) ==
    IF pass_to_json THEN rows ELSE [i \in 1..Len(rows) |-> unquote_row(rows[i])]

\* lines 628-642 of to_dict, given self.data and self.column_by_id
dict_of(orient, pass_to_json, data, cols) ==
    IF data.k # "list" THEN Raised("TypeError")
    ELSE IF cols.k # "map" THEN Raised("AttributeError")
    ELSE IF \E i \in 1..Len(data.v) : Len(data.v[i].v) > Len(cols.v)
         THEN Raised("IndexError")
    ELSE oriented(orient,
             unquoted(pass_to_json,
                 [i \in 1..Len(data.v) |->
                     rekey(MapValues(model_dump(data.v[i])),
                           [j \in 1..Len(cols.v) |-> cols.v[j][2].name], Map(<<>>))]))

\* to_dict(orient, pass_to_json)
to_dict(orient, pass_to_json, tbl, tz) ==
    IF orient \notin {"records", "index"} THEN Raised("AssertionError")
    ELSE IF pass_to_json.k # "bool" THEN Raised("AssertionError")
    ELSE dict_of(orient, pass_to_json.v, guarded(get_table_data(tbl, tz)), column_by_id(tbl))

\* json.dumps(x), and list(csv.DictReader(StringIO(text)))
json_dumps(x, unescaped) == [k |-> "json", of |-> x, unescaped |-> unescaped]
csv_records(text) == [k |-> "csv_records", of |-> text]

\* lines 653-661 of to_json
json_data(downloaded, tbl, tz) ==
    IF IsRaised(downloaded) THEN downloaded
    ELSE IF Truthy(downloaded) THEN json_dumps(csv_records(downloaded.v), FALSE)
    ELSE Try(to_dict("records", JBool(TRUE), tbl, tz), LAMBDA rows : json_dumps(rows, TRUE))

\* to_json(path) when the download endpoint answers resp
to_json(path, resp, tbl, pg, tz) ==
    write_or_return(json_data(get_csv_from_download_csv(pg, resp), tbl, tz), path, ".json")

(***************************************************************************)
(* The inputs the sessions of the model are built from                      *)
(***************************************************************************)
Col(id, name, type, type_options) ==
    JDict(<< <<"id", Str(<<id>>)>>, <<"name", Str(name)>>, <<"type", Str(<<type>>)>>,
             <<"typeOptions", type_options>> >>)
Choice(id, name) == <<id, JDict(<< <<"id", Str(<<id>>)>>, <<"name", Str(name)>> >>)>>
Choices(cs) == JDict(<< <<"choices", JDict(cs)>> >>)
RowJ(id, cells) == JDict(<< <<"id", Str(<<id>>)>>, <<"cellValuesByColumnId", JDict(cells)>> >>)
User(id, first, last) ==
    <<id, JDict(<< <<"id", Str(<<id>>)>>, <<"firstName", Str(<<first>>)>>,
                   <<"lastName", Str(<<last>>)>> >>)>>
TableJ(columns, rows) ==
    JDict(<< <<"id", Str(<<"tbl1">>)>>, <<"applicationId", Str(<<"app1">>)>>,
             <<"viewOrder", JList(<<Str(<<"viw1">>), Str(<<"viw2">>)>>)>>,
             <<"appBlanket", JDict(<< <<"userInfoById",
                   JDict(<<User("usr1", "Ada", "Low")>>)>> >>)>>,
             <<"columns", JList(columns)>>, <<"rows", JList(rows)>> >>)

Colours == Choices(<<Choice("o1", <<"R", "e", "d">>), Choice("o2", <<"B", "l", "u", "e">>)>>)

GoodTable ==
    TableJ(<<Col("c1", <<"A", " ", "b">>, "text", None),
             Col("c2", <<"C", "!">>, "select", Colours)>>,
           <<RowJ("r1", << <<"c1", Str(<<"x">>)>>, <<"c2", Str(<<"o1">>)>> >>),
             RowJ("r2", << <<"c2", Str(<<"o2">>)>> >>)>>)
UnknownTable ==
    TableJ(<<Col("c1", <<"A">>, "aiText", None), Col("c2", <<"B">>, "multilineText", None)>>,
           <<RowJ("r1", << <<"c1", JDict(<< <<"state", Str(<<"ok">>)>> >>)>>,
                           <<"c2", Str(<<"x", ",", "y">>)>> >>),
             RowJ("r2", << <<"c2", Str(<<"z">>)>> >>)>>)
BrokenTable ==
    TableJ(<<Col("c1", <<"A">>, "multiSelect", None)>>,
           <<RowJ("r1", << <<"c1", JList(<<Str(<<"o1">>)>>)>> >>)>>)
NoRowsTable == JDict(<< <<"columns", JList(<<Col("c1", <<"A">>, "text", None)>>)>> >>)
Tables == {GoodTable, UnknownTable, BrokenTable, NoRowsTable, JDict(<<>>)}

\* the second-stage responses: decoded JSON, or a body that is no JSON
Response(msg, payload) == JDict(<< <<"msg", Str(<<msg>>)>> >> \o payload)
Success(tbl) == Response("SUCCESS", << <<"data", JDict(<< <<"table", tbl>> >>)>> >>)
Responses ==
    {Success(t) : t \in Tables}
    \cup {Response("SUCCESS", <<>>),
          Response("SUCCESS", << <<"data", JDict(<<>>)>> >>),
          Response("FAIL", << <<"data", JDict(<< <<"table", GoodTable>> >>)>> >>),
          Response("FAIL", <<>>),
          JDict(<< <<"data", JDict(<< <<"table", GoodTable>> >>)>> >>),
          JList(<<>>),
          Raised("JSONDecodeError"), Raised("ConnectionError")}

AuthJson(keys) == JDict([i \in 1..Len(keys) |-> <<keys[i], Str(<<"v", ToString(i)>>)>>])
\* what the patterns of the extractors find in a first-stage page
PageJ(url, hdrs, ids) ==
    [k |-> "page", urlWithParams |-> url, headers |-> hdrs,
     requestId |-> ids, sharedViewId |-> ids, applicationId |-> ids,
     sharedViewTableId |-> ids,
     url |-> IF ids = NoMatch THEN NoMatch
             ELSE Str(<<"https:", "\\u002F", "airtable.com", "\\u002F", "view", "\\u002F", "viw9">>)]
GoodUrl == Str(<<"\\", "u002F", "v0.3", "\\", "u002F", "view", "\\", "u002F", "read?x=1">>)
GoodPage == PageJ(GoodUrl, AuthJson(AuthKeys), Str(<<"id7">>))
Pages ==
    {GoodPage,
     PageJ(GoodUrl, AuthJson(AuthKeys), NoMatch),
     PageJ(NoMatch, AuthJson(AuthKeys), Str(<<"id7">>)),
     PageJ(Str(<<>>), AuthJson(AuthKeys), Str(<<"id7">>)),
     PageJ(GoodUrl, NoMatch, Str(<<"id7">>)),
     PageJ(GoodUrl, Str(<<"var headers = {a: 1}">>), Str(<<"id7">>)),
     PageJ(GoodUrl, AuthJson(SubSeq(AuthKeys, 1, 5)), Str(<<"id7">>))}

\* what a caller may assign to .headers
HeaderChoices == {JDict(<< <<"x-airtable-application-id", Str(<<"app2">>)>> >>)}

\* the paths of the export calls, and the answers of the download endpoint
Path(name, suffix) == [k |-> "path", name |-> name, suffix |-> suffix]
Paths == {None, Path("", ""), Path("table", ".csv"), Path("table", ".CSV"),
          Path("table", ".json"), Path("table", ".txt")}
CsvAnswer(code, is_json, text) == [k |-> "response", code |-> code, json |-> is_json, text |-> text]
CsvAnswers ==
    {CsvAnswer(200, FALSE, <<"A b", ",", "C!", "\n", "x", ",", "Red">>),
     CsvAnswer(200, FALSE, <<>>),
     CsvAnswer(404, TRUE, <<"{", "}">>),
     CsvAnswer(403, FALSE, <<"<html>">>),
     Raised("ConnectionError")}
Orients == {"records", "index", "bogus"}
Flags == {JBool(TRUE), JBool(FALSE), Str(<<"yes">>), JInt(1)}

\* a table of two columns and two rows whose first cell is of the given
\* Airtable type; the second column is a text column
CellTable(type, type_options, cell_val) ==
    TableJ(<<Col("c1", <<"A">>, type, type_options), Col("c2", <<"B">>, "text", None)>>,
           <<RowJ("r1", << <<"c1", cell_val>>, <<"c2", Str(<<"x">>)>> >>),
             RowJ("r2", << <<"c2", Str(<<"z">>)>> >>)>>)

Named(name) == JDict(<< <<"foreignRowId", Str(<<"rec1">>)>>,
                        <<"foreignRowDisplayName", Str(<<name>>)>> >>)
Instants == {IsoText(2024, 1, 1, 0, 0), IsoText(2024, 1, 1, 3, 30), IsoText(2024, 12, 31, 23, 0),
             IsoText(2024, 2, 29, 12, 5), IsoText(2023, 6, 30, 20, 0)}

\* cells as Airtable sends them for the column types the code knows:
\* <<type, typeOptions, raw value>>
KnownCells ==
    {<<"autoNumber", None, JInt(7)>>,
     <<"barcode", None, JDict(<< <<"text", Str(<<"123">>)>> >>)>>,
     <<"barcode", None, JDict(<< <<"type", Str(<<"upc">>)>> >>)>>,
     <<"button", None, JDict(<< <<"label", Str(<<"Go">>)>>, <<"url", Str(<<"https://x">>)>> >>)>>,
     <<"checkbox", None, JBool(TRUE)>>,
     <<"checkbox", None, JBool(FALSE)>>,
     <<"collaborator", None, Str(<<"usr1">>)>>,
     <<"collaborator", None, Str(<<"usr9">>)>>,
     <<"computation", None, Str(<<"usr1">>)>>,
     <<"count", None, JInt(0)>>,
     <<"count", None, JInt(2)>>,
     <<"foreignKey", None, JList(<<Named("A"), Named("B")>>)>>,
     <<"foreignKey", None, JList(<<>>)>>,
     <<"formula", None, Str(<<"a", "b">>)>>,
     <<"formula", None, Str(<<"May">>)>>,
     <<"formula", None, JInt(5)>>,
     <<"formula", None, JFloat(<<"1", ".", "5">>)>>,
     <<"formula", None, JList(<<Str(<<"a">>), None, JInt(2)>>)>>,
     <<"lookup", Colours,
       JDict(<< <<"valuesByForeignRowId",
                  JDict(<< <<"rec1", JList(<<Named("A")>>)>>,
                           <<"rec2", JList(<<Str(<<"o1">>), JInt(3)>>)>> >>)>> >>)>>,
     <<"lookup", None, JDict(<< <<"valuesByForeignRowId", JDict(<<>>)>> >>)>>,
     <<"multilineText", None, Str(<<"x", "\n", "y">>)>>,
     <<"multipleAttachment", None,
       JList(<<JDict(<< <<"filename", Str(<<"a.png">>)>> >>),
               JDict(<< <<"filename", Str(<<"b.pdf">>)>> >>)>>)>>,
     <<"multiSelect", Colours, JList(<<Str(<<"o1">>), Str(<<"o2">>)>>)>>,
     <<"number", None, JInt(3)>>,
     <<"number", None, JFloat(<<"1", ".", "5">>)>>,
     <<"phone", None, Str(<<"555">>)>>,
     <<"rating", None, JInt(4)>>,
     <<"richText", None,
       JDict(<< <<"documentValue",
                  JList(<<JDict(<< <<"insert", Str(<<"a", " ">>)>> >>),
                          JDict(<< <<"insert", Str(<<"b", " ">>)>> >>)>>)>> >>)>>,
     <<"rollup", None, JInt(9)>>,
     <<"rollup", None, Str(<<"s">>)>>,
     <<"select", Colours, Str(<<"o2">>)>>,
     <<"text", None, Str(<<"t">>)>>}
    \cup {<<"date", None, Str(t)>> : t \in Instants}
    \cup {<<"formula", None, Str(t)>> : t \in Instants}
    \cup {<<"rollup", None, Str(t)>> : t \in Instants}

\* cells of column types the code has no handler for
UnknownCells ==
    {<<type, None, v>> :
        type \in {"aiText", "unknownType"},
        v \in {Str(<<"raw">>), JInt(1), JFloat(<<"2", ".", "5">>), JBool(TRUE),
               JList(<<Str(<<"a">>), JInt(2)>>), JDict(<< <<"state", Str(<<"ok">>)>> >>)}}

CellTables == {CellTable(c[1], c[2], c[3]) : c \in KnownCells \cup UnknownCells}

\* the longest lookup list, the most reads of one property, and the most
\* HTTP requests of one session, that the model follows
MaxLen == 2
MaxReads == 2
MaxFetches == 3

\* the nested lookup structures and option maps flatten_lookup_column_r is
\* applied to
SeqsUpTo(S, n) == UNION {[1..m -> S] : m \in 0..n}
Leaves == {Named("A"), Named("B"), JInt(3), Str(<<"o1">>)}
Nested == {JList(s) : s \in SeqsUpTo(Leaves \cup {JList(<<l>>) : l \in Leaves}, 2)}
Lookups ==
    {<<>>}
    \cup {<<a>> \o t : a \in Leaves \cup Nested, t \in SeqsUpTo(Leaves, MaxLen - 1)}
    \cup {t \o <<a>> : a \in Leaves \cup Nested, t \in SeqsUpTo(Leaves, MaxLen - 1)}
OptionMaps == {None, Map(<< <<JInt(3), Str(<<"C">>)>> >>)}

\* tables of five columns whose rows are drawn from a few kinds of rows: the
\* schema as Airtable sends it, the same without option maps, and one with
\* two columns of the same sanitized name
ColsGood ==
    <<Col("c1", <<"A", " ", "b">>, "text", None),
      Col("c2", <<"C", "!">>, "select", Colours),
      Col("c3", <<"N">>, "multiSelect", Colours),
      Col("c4", <<" ", "B">>, "collaborator", None),
      Col("c5", <<"A">>, "formula", None)>>
ColsNoOptions ==
    <<Col("c1", <<"A", " ", "b">>, "text", None),
      Col("c2", <<"C", "!">>, "select", None),
      Col("c3", <<"N">>, "multiSelect", None),
      Col("c4", <<" ", "B">>, "collaborator", None),
      Col("c5", <<"A">>, "formula", None)>>
ColsSameName ==
    <<Col("c1", <<"A", " ", "b">>, "text", None),
      Col("c2", <<"a", "_", "b", "!">>, "text", None)>>

\* a row with every cell, one with its cells in another order than the
\* columns, one without cells, one whose select id has no option, one whose
\* multiSelect id has no option
FullRow ==
    RowJ("r1", << <<"c1", Str(<<"x">>)>>, <<"c2", Str(<<"o1">>)>>,
                  <<"c3", JList(<<Str(<<"o1">>), Str(<<"o2">>)>>)>>,
                  <<"c4", Str(<<"usr1">>)>>, <<"c5", JInt(5)>> >>)
ShuffledRow == RowJ("r2", << <<"c5", Str(<<"f">>)>>, <<"c1", Str(<<"y">>)>> >>)
EmptyRow == RowJ("r3", <<>>)
UnmappedSelectRow == RowJ("r4", << <<"c1", Str(<<"z">>)>>, <<"c2", Str(<<"o9">>)>> >>)
UnmappedMultiRow ==
    RowJ("r5", << <<"c1", Str(<<"w">>)>>, <<"c3", JList(<<Str(<<"o9">>)>>)>> >>)
RowKinds == {FullRow, ShuffledRow, EmptyRow, UnmappedSelectRow, UnmappedMultiRow}

\* a table payload with or without its user directory (appBlanket)
TableOf(columns, rows, with_users) ==
    IF with_users THEN TableJ(columns, rows)
    ELSE JDict(<< <<"id", Str(<<"tbl1">>)>>, <<"applicationId", Str(<<"app1">>)>>,
                  <<"viewOrder", JList(<<Str(<<"viw1">>)>>)>>,
                  <<"columns", JList(columns)>>, <<"rows", JList(rows)>> >>)

\* raw columns by the shape of their typeOptions: null, an empty object, a
\* choices map, a resultType without choices, a choice without a name,
\* choices that are a list, a choice whose name is a number, and a column
\* object without the typeOptions key
ColumnShapes ==
    {None,
     JDict(<<>>),
     Colours,
     JDict(<< <<"resultType", Str(<<"text">>)>> >>),
     Choices(<<Choice("o1", <<"R", "e", "d">>),
               <<"o2", JDict(<< <<"id", Str(<<"o2">>)>> >>)>> >>),
     JDict(<< <<"choices", JList(<<Str(<<"o1">>)>>)>> >>),
     Choices(<<Choice("o1", <<"R", "e", "d">>),
               <<"o2", JDict(<< <<"id", Str(<<"o2">>)>>, <<"name", JInt(5)>> >>)>> >>),
     Unset}
ShapedCol(id, shape) ==
    IF shape = Unset
    THEN JDict(<< <<"id", Str(<<id>>)>>, <<"name", Str(<<"A">>)>>, <<"type", Str(<<"select">>)>> >>)
    ELSE Col(id, <<"A">>, "select", shape)
SchemaTables ==
    {TableJ([j \in 1..Len(shapes) |-> ShapedCol(<<"c1", "c2", "c3">>[j], shapes[j])], <<>>) :
        shapes \in SeqsUpTo(ColumnShapes, MaxLen) \ {<<>>}}

RowTables ==
    {TableOf(ColsGood, rows, TRUE) : rows \in SeqsUpTo(RowKinds, MaxLen)}
    \cup {TableOf(ColsGood, rows, FALSE) : rows \in SeqsUpTo(RowKinds, MaxLen)}
    \cup {TableOf(ColsNoOptions, rows, TRUE) : rows \in SeqsUpTo(RowKinds, MaxLen)}
    \cup {TableOf(ColsSameName, rows, TRUE) : rows \in SeqsUpTo(RowKinds, 1)}

(***************************************************************************)
(* The session as a state machine                                           *)
(***************************************************************************)
Unread == [k |-> "unread"]
NoCall == [op |-> "none", arg |-> <<>>, val |-> None, wrote |-> {}, warnings |-> 0]
Cached == {"data", "column_by_id", "dtypes"}
Plain == {"status", "raw_rows_json", "raw_columns_json"}

\* AirtableScraper(url), before its first request
Init ==
    /\ pc = "new"
    /\ timezone = "America/New_York"
    /\ page = NoMatch
    /\ new_url = None
    /\ headers = base_headers
    /\ data_ = None
    /\ table = None
    /\ status = "unset"
    /\ fetches = 0
    /\ reads = [a \in Cached |-> [first |-> Unread, times |-> 0]]
    /\ out = NoCall
    /\ files = {}
    /\ input = None

\* lines 39-41: the first-stage request
Fetch1 ==
    /\ pc = "new"
    /\ fetches' = fetches + 1
    /\ \E pg \in Pages \cup {Raised("ConnectionError")} :
          IF IsRaised(pg) THEN pc' = "raised" /\ page' = page
          ELSE pc' = "page" /\ page' = pg
    /\ UNCHANGED <<timezone, new_url, headers, data_, table, status, reads, out, files,
                   input>>

\* line 44
GetNewUrl ==
    /\ pc = "page"
    /\ IF IsRaised(get_new_url(page)) THEN pc' = "raised" /\ new_url' = new_url
       ELSE pc' = "url" /\ new_url' = get_new_url(page)
    /\ UNCHANGED <<timezone, page, headers, data_, table, status, fetches, reads, out,
                   files, input>>

\* line 45
GetFullHeaders ==
    /\ pc = "url"
    /\ IF IsRaised(get_full_headers(page, timezone))
       THEN pc' = "raised" /\ headers' = headers
       ELSE pc' = "headers" /\ headers' = get_full_headers(page, timezone)
    /\ UNCHANGED <<timezone, page, new_url, data_, table, status, fetches, reads, out,
                   files, input>>

\* lines 46-52 once the response is decoded
Decoded(resp, ts) ==
    IF IsRaised(ts)
    THEN pc' = "raised" /\ data_' = resp /\ UNCHANGED <<table, status>>
    ELSE pc' = "done" /\ data_' = resp /\ table' = ts.table /\ status' = ts.status

\* lines 46-52: the second-stage request, its .json(), table and status
Fetch2 ==
    /\ pc = "headers"
    /\ fetches' = fetches + 1
    /\ \E resp \in Responses :
          IF IsRaised(resp) THEN pc' = "raised" /\ UNCHANGED <<data_, table, status>>
          ELSE Decoded(resp, table_and_status(resp))
    /\ UNCHANGED <<timezone, page, new_url, headers, reads, out, files, input>>

\* what a read of accessor a leaves behind
Called(a, run) ==
    [op |-> a, arg |-> <<>>, val |-> guarded(run.res), wrote |-> {}, warnings |-> run.warned]

\* a read of one of the lazy accessors
Read(a) ==
    /\ pc = "done"
    /\ a \in Cached => reads[a].times < MaxReads
    /\ out' = Called(a, accessor_run(a, table, headers, page, timezone))
    /\ reads' = IF a \notin Cached THEN reads
                ELSE [reads EXCEPT ![a] =
                         [first |-> IF reads[a].times = 0 THEN out'.val ELSE reads[a].first,
                          times |-> reads[a].times + 1]]
    /\ fetches' = fetches + accessor_requests(a)
    /\ UNCHANGED <<pc, timezone, page, new_url, headers, data_, table, status, files, input>>

\* a read of status, raw_rows_json or raw_columns_json
ReadPlain(a) ==
    /\ pc = "done"
    /\ out' = [op |-> a, arg |-> <<>>, wrote |-> {}, warnings |-> 0,
               val |-> CASE a = "status" -> Str(<<status>>)
                         [] a = "raw_rows_json" -> raw_rows_json(table)
                         [] a = "raw_columns_json" -> raw_columns_json(table)]
    /\ UNCHANGED <<pc, timezone, page, new_url, headers, data_, table, status, fetches,
                   reads, files, input>>

\* the headers setter
SetHeaders(new_params) ==
    /\ pc = "done"
    /\ headers' = IF new_params # headers THEN new_params ELSE headers
    /\ UNCHANGED <<pc, timezone, page, new_url, data_, table, status, fetches, reads,
                   out, files, input>>

\* the headers deleter
DelHeaders ==
    /\ pc = "done"
    /\ headers' = JDict(<<>>)
    /\ UNCHANGED <<pc, timezone, page, new_url, data_, table, status, fetches, reads,
                   out, files, input>>

\* __write(data, path): the file holds what the last write put there
written(fs, wrote) == {f \in fs : \A w \in wrote : w[1] # f[1]} \cup wrote

\* what an export call leaves behind
Exported(op, arg, outcome, warned) ==
    [op |-> op, arg |-> arg, val |-> outcome.val, wrote |-> outcome.wrote,
     warnings |-> IF warned THEN 1 ELSE 0]

ToCsv(path, resp) ==
    /\ pc = "done"
    /\ fetches < MaxFetches
    /\ out' = Exported("to_csv", <<path, resp>>, to_csv(path, resp, table, page, timezone),
                       download_warning(page, resp))
    /\ files' = written(files, out'.wrote)
    /\ fetches' = fetches + download_requests(page)
    /\ UNCHANGED <<pc, timezone, page, new_url, headers, data_, table, status, reads, input>>

ToJson(path, resp) ==
    /\ pc = "done"
    /\ fetches < MaxFetches
    /\ out' = Exported("to_json", <<path, resp>>, to_json(path, resp, table, page, timezone),
                       download_warning(page, resp))
    /\ files' = written(files, out'.wrote)
    /\ fetches' = fetches + download_requests(page)
    /\ UNCHANGED <<pc, timezone, page, new_url, headers, data_, table, status, reads, input>>

ToDict(orient, pass_to_json) ==
    /\ pc = "done"
    /\ out' = Exported("to_dict", <<orient, pass_to_json>>,
                       Outcome(to_dict(orient, pass_to_json, table, timezone), {}), FALSE)
    /\ UNCHANGED <<pc, timezone, page, new_url, headers, data_, table, status, fetches,
                   reads, files, input>>

\* flatten_lookup_column_r applied to the drawn arguments
Flatten ==
    /\ out.op = "none"
    /\ input # None
    /\ out' = [op |-> "flatten_lookup_column_r", arg |-> input, wrote |-> {}, warnings |-> 0,
               val |-> JList(flatten_lookup_column_r(input.lst, input.type_options))]
    /\ UNCHANGED <<pc, timezone, page, new_url, headers, data_, table, status, fetches,
                   reads, files, input>>

Next ==
    \/ Fetch1
    \/ GetNewUrl
    \/ GetFullHeaders
    \/ Fetch2
    \/ \E a \in Accessors : Read(a)
    \/ \E a \in Plain : ReadPlain(a)
    \/ \E h \in HeaderChoices : SetHeaders(h)
    \/ DelHeaders

Spec == Init /\ [][Next]_vars

\* a session as __init__ leaves it for a first-stage page pg and a decoded
\* second-stage response resp
Constructed(pg, resp, tz) ==
    /\ pc = "done"
    /\ timezone = tz
    /\ page = pg
    /\ new_url = get_new_url(pg)
    /\ headers = get_full_headers(pg, tz)
    /\ data_ = resp
    /\ table = table_and_status(resp).table
    /\ status = table_and_status(resp).status
    /\ fetches = 2
    /\ reads = [a \in Cached |-> [first |-> Unread, times |-> 0]]
    /\ out = NoCall
    /\ files = {}
    /\ input = None

\* the export calls on constructed sessions
InitExport ==
    \E resp \in {Success(t) : t \in Tables} \cup {Response("FAIL", <<>>)} :
        Constructed(GoodPage, resp, "America/New_York")

NextExport ==
    \/ \E path \in Paths, resp \in CsvAnswers : ToCsv(path, resp)
    \/ \E path \in Paths, resp \in CsvAnswers : ToJson(path, resp)
    \/ \E orient \in Orients, flag \in Flags : ToDict(orient, flag)

SpecExport == InitExport /\ [][NextExport]_vars

\* reads of the materialized table on sessions over one cell of every kind
InitCells ==
    \E tbl \in CellTables, tz \in Zones : Constructed(GoodPage, Success(tbl), tz)

NextCells == \E a \in Cached : Read(a)

SpecCells == InitCells /\ [][NextCells]_vars

\* flatten_lookup_column_r on its own
InitFlatten ==
    /\ pc = "new"
    /\ timezone = "America/New_York"
    /\ page = NoMatch
    /\ new_url = None
    /\ headers = base_headers
    /\ data_ = None
    /\ table = None
    /\ status = "unset"
    /\ fetches = 0
    /\ reads = [a \in Cached |-> [first |-> Unread, times |-> 0]]
    /\ out = NoCall
    /\ files = {}
    /\ input \in {[lst |-> l, type_options |-> m] : l \in Lookups, m \in OptionMaps}

NextFlatten == Flatten

SpecFlatten == InitFlatten /\ [][NextFlatten]_vars

\* reads of the schema, the type analysis and the materialized rows on
\* sessions over tables of several rows
InitRows == \E tbl \in RowTables : Constructed(GoodPage, Success(tbl), "America/New_York")

NextRows == \E a \in {"data", "dtypes"} : Read(a)

SpecRows == InitRows /\ [][NextRows]_vars

\* reads of the resolved schema on sessions over columns of every shape
InitSchema == \E tbl \in SchemaTables : Constructed(GoodPage, Success(tbl), "America/New_York")

NextSchema == \E a \in {"column_by_id", "column_definitions"} : Read(a)

SpecSchema == InitSchema /\ [][NextSchema]_vars

\* what self.__s.close() may do, and what the body of a with-block may raise
CloseOutcomes == {None, Raised("OSError")}
BodyOutcomes == {None, Raised("ValueError"), Raised("KeyError")}

\* lines 58-63: __exit__ closes the connection under try/except, logs a
\* failure of close(), and raises the body's exception again; val is what
\* leaves the method, warnings the number of errors logged
exit_call(exc, closed) ==
    [op |-> "__exit__", arg |-> <<exc, closed>>, val |-> exc, wrote |-> {},
     warnings |-> IF IsRaised(closed) THEN 1 ELSE 0]

\* lines 65-66: __del__ closes the connection; an exception of close()
\* leaves the method
del_call(closed) ==
    [op |-> "__del__", arg |-> <<None, closed>>, val |-> closed, wrote |-> {}, warnings |-> 0]

\* with AirtableScraper(url) as table: __enter__ returns self
Enter ==
    /\ pc = "done"
    /\ pc' = "entered"
    /\ UNCHANGED <<timezone, page, new_url, headers, data_, table, status, fetches, reads,
                   out, files, input>>

\* the with-block is left, its body having raised exc or nothing
Exit(exc, closed) ==
    /\ pc = "entered"
    /\ pc' = "exited"
    /\ out' = exit_call(exc, closed)
    /\ UNCHANGED <<timezone, page, new_url, headers, data_, table, status, fetches, reads,
                   files, input>>

\* the object is torn down, outside a with-block
Del(closed) ==
    /\ pc \in {"done", "exited"}
    /\ pc' = "deleted"
    /\ out' = del_call(closed)
    /\ UNCHANGED <<timezone, page, new_url, headers, data_, table, status, fetches, reads,
                   files, input>>

\* the life of a session as a context manager, up to its teardown
InitClose ==
    \E resp \in {Success(t) : t \in Tables} \cup {Response("FAIL", <<>>)}, tz \in Zones :
        Constructed(GoodPage, resp, tz)

NextClose ==
    \/ Enter
    \/ \E exc \in BodyOutcomes, closed \in CloseOutcomes : Exit(exc, closed)
    \/ \E closed \in CloseOutcomes : Del(closed)

SpecClose == InitClose /\ [][NextClose]_vars

(***************************************************************************)
(* Properties                                                               *)
(***************************************************************************)
\* C1: after construction, a second-stage response whose "msg" is not
\* "SUCCESS" leaves the status "failed" and the table empty, so that
\* raw_rows_json and raw_columns_json yield None; the status is "success"
\* only if "msg" is "SUCCESS".
C1_FailedLeavesTableEmpty ==
    pc = "done" =>
        /\ Get(data_, "msg") # Str(<<"SUCCESS">>) =>
              /\ status = "failed"
              /\ table = JDict(<<>>)
              /\ raw_rows_json(table) = None
              /\ raw_columns_json(table) = None
              /\ out.op \in {"raw_rows_json", "raw_columns_json"} => out.val = None
        /\ status = "success" => Get(data_, "msg") = Str(<<"SUCCESS">>)

\* a response that is no success although it carries a table, and the
\* rows read from the session built from it
C1_Witness ==
    /\ pc = "done"
    /\ status = "failed"
    /\ Get(Get(data_, "data"), "table") = GoodTable
    /\ out.op = "raw_rows_json"
    /\ out.val = None

\* C2: on a constructed session every lazy accessor returns the value of its
\* computation, or None where the computation raises; it never raises, and
\* in every state the session reaches, whichever reads failed before, status
\* and every accessor can still be read.
C2_AccessorsNeverRaise ==
    pc = "done" =>
        /\ status \in {"success", "failed"}
        /\ out.op \in Accessors => ~IsRaised(out.val)
        /\ \A a \in Accessors :
              /\ ~IsRaised(accessor(a, table, headers, page, timezone))
              /\ IsRaised(accessor_run(a, table, headers, page, timezone).res)
                    => accessor(a, table, headers, page, timezone) = None

\* data was read and failed on a failed session, and status was read after it
C2_Witness ==
    /\ pc = "done"
    /\ status = "failed"
    /\ reads["data"].times > 0
    /\ reads["data"].first = None
    /\ IsRaised(get_table_data(table, timezone))
    /\ out.op = "status"
    /\ out.val = Str(<<"failed">>)

\* the page lacks the url-with-params fragment or the headers object
Lacks(pg) == pg.urlWithParams = NoMatch \/ pg.headers = NoMatch

\* C3: with a first-stage page that lacks the url-with-params fragment or
\* the headers object, __init__ raises at the extraction, no status is set
\* and the second request is not issued; the second request is issued only
\* with both fragments extracted.
C3_NoSecondFetchWithoutFragments ==
    /\ page.k = "page" /\ Lacks(page) =>
          /\ pc \in {"page", "url", "raised"}
          /\ fetches = 1
          /\ status = "unset"
          /\ data_ = None
          /\ pc = "page" /\ page.urlWithParams = NoMatch => IsRaised(get_new_url(page))
          /\ pc = "url" => page.urlWithParams # NoMatch
                           /\ IsRaised(get_full_headers(page, timezone))
    /\ fetches = 2 =>
          /\ page.k = "page"
          /\ ~Lacks(page)
          /\ new_url = get_new_url(page)
          /\ headers = get_full_headers(page, timezone) \/ pc = "done"

\* the url was extracted, the headers object is missing, __init__ raised
C3_Witness ==
    /\ pc = "raised"
    /\ page.k = "page"
    /\ page.headers = NoMatch
    /\ new_url # None
    /\ fetches = 1

C5_AnyOtherSuffixRejected ==
    /\ out.op = "to_csv" /\ out.arg[1] # None /\ out.arg[1].suffix # ".csv" =>
          IsRaised(out.val) /\ out.wrote = {}
    /\ out.op = "to_json" /\ out.arg[1] # None /\ out.arg[1].suffix # ".json" =>
          IsRaised(out.val) /\ out.wrote = {}
    /\ out.op = "to_dict" /\ (out.arg[1] \notin {"records", "index"} \/ out.arg[2].k # "bool") =>
          IsRaised(out.val) /\ out.wrote = {}

\* C5: to_csv with a non-empty path whose suffix is in no letter case
\* ".csv", to_json with a non-empty path whose suffix is in no letter case
\* ".json", to_dict with an orient outside {"records", "index"} or a
\* pass_to_json that is no bool raise and write nothing.
C5_InvalidExportRejected ==
    /\ out.op = "to_csv" /\ given(out.arg[1])
       /\ out.arg[1].suffix \notin {".csv", ".CSV"} =>
          IsRaised(out.val) /\ out.wrote = {}
    /\ out.op = "to_json" /\ given(out.arg[1])
       /\ out.arg[1].suffix \notin {".json", ".JSON"} =>
          IsRaised(out.val) /\ out.wrote = {}
    /\ out.op = "to_dict" /\ (out.arg[1] \notin {"records", "index"} \/ out.arg[2].k # "bool") =>
          IsRaised(out.val) /\ out.wrote = {}

\* to_csv("table.txt") on a session whose rows were downloaded: the
\* assertion raised and nothing was written
C5_Witness ==
    /\ out.op = "to_csv"
    /\ out.arg[1] = Path("table", ".txt")
    /\ ~IsRaised(out.arg[2])
    /\ out.arg[2].code = 200
    /\ out.val = Raised("AssertionError")
    /\ out.wrote = {}
    /\ files = {}

\* C6: on a successful session whose table materializes, to_csv with no
\* path or a .csv path, answered by the download endpoint with a status
\* other than 200, does not raise: it logs the failure and returns or writes
\* the manual serialization.
C6_FallbackOnAnyNon200 ==
    /\ out.op = "to_csv"
    /\ status = "success"
    /\ table = GoodTable
    /\ out.arg[1] \in {None, Path("table", ".csv")}
    /\ ~IsRaised(out.arg[2])
    /\ out.arg[2].code # 200
    => /\ ~IsRaised(out.val)
       /\ out.warnings = 1
       /\ out.arg[1] = None => out.val = manual_csv(table, timezone)
       /\ out.arg[1] # None => out.wrote = {<<out.arg[1], manual_csv(table, timezone)>>}

\* C7: to_dict(orient="index") returns a mapping whose keys are exactly
\* row1..rowN, N the length of data, and rowi maps to element i of
\* to_dict(orient="records").
C7_IndexKeysRow1ToN ==
    out.op = "to_dict" /\ out.arg[1] = "index" /\ ~IsRaised(out.val) =>
        /\ accessor("data", table, headers, page, timezone).k = "list"
        /\ out.val.k = "map"
        /\ Len(out.val.v) = Len(accessor("data", table, headers, page, timezone).v)
        /\ MapKeys(out.val) = {Str(<<"row", ToString(i)>>) : i \in 1..Len(out.val.v)}
        /\ \A i \in 1..Len(out.val.v) :
              /\ out.val.v[i][1] = Str(<<"row", ToString(i)>>)
              /\ out.val.v[i][2] = to_dict("records", out.arg[2], table, timezone).v[i]

\* to_dict(orient="index") on a session of two rows
C7_Witness ==
    /\ out.op = "to_dict"
    /\ out.arg[1] = "index"
    /\ out.val.k = "map"
    /\ Len(out.val.v) = 2
    /\ accessor("data", table, headers, page, timezone).k = "list"

\* the Airtable type and the raw value of the first cell of the session's table
CellType == Lookup(Lookup(table, "columns").v[1], "type").v
RawCell == Lookup(Lookup(Lookup(table, "rows").v[1], "cellValuesByColumnId"), "c1")

\* C8: where the first column of the table is of a type without a handler,
\* data holds both rows, the first row's first field is the raw value
\* unchanged, every other cell is decoded as usual, and one warning is
\* logged.
C8_UnknownTypePassesRaw ==
    out.op = "data" /\ CellType \notin KnownTypes =>
        /\ out.val.k = "list"
        /\ Len(out.val.v) = 2
        /\ out.val.v[1].v = << <<<<"a">>, RawCell>>, <<<<"b">>, Str(<<"x">>)>> >>
        /\ out.val.v[2].v = << <<<<"a">>, None>>, <<<<"b">>, Str(<<"z">>)>> >>
        /\ out.warnings = 1

\* a cell of type "unknownType" holding a list, passed through as it is
C8_Witness ==
    /\ out.op = "data"
    /\ CellType = <<"unknownType">>
    /\ RawCell = JList(<<Str(<<"a">>), JInt(2)>>)
    /\ out.val.k = "list"
    /\ out.val.v[1].v[1][2] = RawCell
    /\ out.warnings = 1

\* C9: where the first column of the table is of a type with a handler, the
\* first row's first field is a string or null.
C9_KnownOutputStringOrNull ==
    out.op = "data" /\ CellType \in KnownTypes /\ out.val.k = "list" =>
        out.val.v[1].v[1][2].k \in {"str", "null"}

RECURSIVE Splice(_)
\* every list among the elements replaced by its elements, in place
Splice(lst) ==
    IF Len(lst) = 0 THEN <<>>
    ELSE (IF Head(lst).k = "list" THEN Head(lst).v ELSE <<Head(lst)>>) \o Splice(Tail(lst))

RECURSIVE LeafList(_)
\* the leaves of a nested list from left to right
LeafList(lst) ==
    IF \E i \in 1..Len(lst) : lst[i].k = "list" THEN LeafList(Splice(lst)) ELSE lst

\* what a leaf stands for: a record's display name, else the leaf's label
\* in the option map, else the leaf
Label(leaf, options) ==
    IF leaf.k = "dict"
    THEN (IF "foreignRowDisplayName" \in Keys(leaf) THEN Lookup(leaf, "foreignRowDisplayName")
          ELSE None)
    ELSE IF options # None /\ \E i \in 1..Len(options.v) : options.v[i][1] = leaf
         THEN (CHOOSE pair \in {options.v[i] : i \in 1..Len(options.v)} : pair[1] = leaf)[2]
    ELSE leaf

\* [{foreignRowDisplayName: A}, [{foreignRowDisplayName: B}, 3]] and {3: C}
Example ==
    [lst |-> <<Named("A"), JList(<<Named("B"), JInt(3)>>)>>,
     type_options |-> Map(<< <<JInt(3), Str(<<"C">>)>> >>)]

\* C10: flatten_lookup_column_r returns a list without lists in it that
\* holds, for the leaves of its argument from left to right, the display
\* name of a record, else the leaf's label in the option map, else the leaf;
\* the example yields [A, B, C].
C10_FlattenDepthFirst ==
    out.op = "flatten_lookup_column_r" =>
        /\ out.val.k = "list"
        /\ \A i \in 1..Len(out.val.v) : out.val.v[i].k # "list"
        /\ out.val.v = [i \in 1..Len(LeafList(input.lst)) |->
                           Label(LeafList(input.lst)[i], input.type_options)]
        /\ input = Example => out.val.v = <<Str(<<"A">>), Str(<<"B">>), Str(<<"C">>)>>

\* the example was flattened
C10_Witness ==
    /\ out.op = "flatten_lookup_column_r"
    /\ input = Example
    /\ out.val = JList(<<Str(<<"A">>), Str(<<"B">>), Str(<<"C">>)>>)

\* the raw columns and rows of the session's table
RawColumns == Lookup(table, "columns").v
RawRows == Lookup(table, "rows").v

\* C11: every row of data has one field per raw column, in the order of the
\* columns and named by the sanitized column name, and the field of a
\* column the raw row has no cell for is None; for the five columns
\* "A b", "C!", "N", " B", "A" the fields are a_b, c, n, b, a.
C11_RowsExposeAllColumns ==
    out.op = "data" /\ out.val.k = "list" =>
        \A i \in 1..Len(out.val.v) :
            /\ Len(out.val.v[i].v) = Len(RawColumns)
            /\ \A j \in 1..Len(RawColumns) :
                  /\ out.val.v[i].v[j][1] = field_name(Lookup(RawColumns[j], "name").v)
                  /\ Lookup(RawColumns[j], "id").v[1] \notin Keys(RowCells(RawRows[i]))
                        => out.val.v[i].v[j][2] = None
            /\ RawColumns = ColsGood =>
                  [j \in 1..5 |-> out.val.v[i].v[j][1]]
                     = << <<"a", "_", "b">>, <<"c">>, <<"n">>, <<"b">>, <<"a">> >>

\* a row whose cells come in another order than the columns, and a row
\* without cells, materialized with all five fields
C11_Witness ==
    /\ out.op = "data"
    /\ table = TableOf(ColsGood, <<ShuffledRow, EmptyRow>>, TRUE)
    /\ out.val.k = "list"
    /\ Len(out.val.v) = 2
    /\ out.val.v[1].v[1] = << <<"a", "_", "b">>, Str(<<"y">>)>>
    /\ out.val.v[1].v[5] = << <<"a">>, Str(<<"f">>)>>
    /\ \A j \in 1..5 : out.val.v[2].v[j][2] = None

C13_NoMatchGivesEmptyString ==
    pc = "done" =>
        /\ out.op = "request_id" /\ page.requestId = NoMatch =>
              get_request_id(page) = Str(<<>>) /\ out.val = Str(<<>>)
        /\ out.op = "share_id" /\ page.sharedViewId = NoMatch =>
              get_share_id(page) = Str(<<>>) /\ out.val = Str(<<>>)
        /\ out.op = "table_id" /\ ~Truthy(table) /\ page.sharedViewTableId = NoMatch =>
              get_table_id(table, page) = Str(<<>>) /\ out.val = Str(<<>>)
        /\ out.op = "view_id" /\ ~Truthy(table) /\ page.url = NoMatch =>
              get_view_id(table, page) = Str(<<>>) /\ out.val = Str(<<>>)
        /\ out.op = "app_id" /\ ~Truthy(table) /\ headers = JDict(<<>>)
           /\ page.applicationId = NoMatch =>
              get_app_id(table, headers, page) = Str(<<>>) /\ out.val = Str(<<>>)

\* the entry of a JSON object, None where it has none
Entry(d, key) == IF key \in Keys(d) THEN Lookup(d, key) ELSE None

\* what a read of table_id or view_id returns on the session: the table's
\* entry where there is a table, else the page's fragment where it has one
TableIdRead == out'.op = "table_id" /\ UNCHANGED <<headers, table, page>> =>
    /\ Truthy(table) => out'.val = Entry(table, "id")
    /\ ~Truthy(table) /\ page.sharedViewTableId # NoMatch => out'.val = page.sharedViewTableId
ViewIdRead == out'.op = "view_id" /\ UNCHANGED <<headers, table, page>> =>
    /\ Truthy(table) /\ Entry(table, "viewOrder").k = "list" =>
          out'.val = Entry(table, "viewOrder").v[1]
    /\ Truthy(table) /\ Entry(table, "viewOrder").k = "null" => out'.val = None
    /\ ~Truthy(table) /\ page.url # NoMatch => out'.val = Str(<<"viw9">>)

\* C14 as stated: a read of app_id, table_id or view_id returns the table's
\* entry where the table is present, and what the pattern finds in the
\* first-stage page where the table is absent, whatever the request headers.
C14_IdsFromTableElsePage ==
    [][/\ TableIdRead
       /\ ViewIdRead
       /\ out'.op = "app_id" /\ UNCHANGED <<headers, table, page>> =>
             /\ Truthy(table) => out'.val = Entry(table, "applicationId")
             /\ ~Truthy(table) /\ page.applicationId # NoMatch =>
                   out'.val = page.applicationId]_vars

\* C14: a read of table_id or view_id returns the table's entry where the
\* table is present and what the pattern finds in the first-stage page where
\* it is absent; a read of app_id returns the table's entry where the table
\* is present, else the x-airtable-application-id of the current request
\* headers where they hold a non-empty one, and what the pattern finds in
\* the page only where they hold none.
C14_AppIdFromTableElseHeadersElsePage ==
    [][/\ TableIdRead
       /\ ViewIdRead
       /\ out'.op = "app_id" /\ UNCHANGED <<headers, table, page>> =>
             /\ Truthy(table) => out'.val = Entry(table, "applicationId")
             /\ ~Truthy(table) /\ Truthy(Entry(headers, "x-airtable-application-id")) =>
                   out'.val = Entry(headers, "x-airtable-application-id")
             /\ ~Truthy(table) /\ ~Truthy(Entry(headers, "x-airtable-application-id"))
                /\ page.applicationId # NoMatch =>
                   out'.val = page.applicationId]_vars

\* on a failed session whose page holds the application id "id7", app_id
\* was read after the caller assigned headers naming "app2"
C14_Witness ==
    /\ pc = "done"
    /\ status = "failed"
    /\ table = JDict(<<>>)
    /\ page.applicationId = Str(<<"id7">>)
    /\ headers = JDict(<< <<"x-airtable-application-id", Str(<<"app2">>)>> >>)
    /\ out.op = "app_id"
    /\ out.val = Str(<<"app2">>)

\* the choices of a raw column are there and each has a name and an id
HasChoices(col) ==
    /\ "typeOptions" \in Keys(col)
    /\ Lookup(col, "typeOptions").k = "dict"
    /\ "choices" \in Keys(Lookup(col, "typeOptions"))
    /\ Lookup(Lookup(col, "typeOptions"), "choices").k = "dict"
    /\ \A c \in {Values(Lookup(Lookup(col, "typeOptions"), "choices"))[i] :
                    i \in 1..Len(Lookup(Lookup(col, "typeOptions"), "choices").v)} :
          c.k = "dict" /\ {"id", "name"} \subseteq Keys(c)
             /\ Lookup(c, "id").k = "str" /\ Lookup(c, "name").k = "str"

\* the option id -> option name map of all the choices of a raw column
AllOptions(col) ==
    Map([i \in 1..Len(Lookup(Lookup(col, "typeOptions"), "choices").v) |->
            <<Lookup(Values(Lookup(Lookup(col, "typeOptions"), "choices"))[i], "id"),
              Lookup(Values(Lookup(Lookup(col, "typeOptions"), "choices"))[i], "name")>>])

\* C15: column_by_id holds one definition per raw column, keyed by the
\* column's id in the order of the raw columns; the typeOptions of a
\* column with well-formed choices is the map of all its choices, and that
\* of a column without typeOptions or with malformed choices is None, the
\* other columns being resolved all the same.
C15_OptionsCompleteOrNone ==
    out.op = "column_by_id" =>
        /\ out.val.k = "map"
        /\ Len(out.val.v) = Len(RawColumns)
        /\ \A j \in 1..Len(RawColumns) :
              /\ out.val.v[j][1] = Lookup(RawColumns[j], "id")
              /\ out.val.v[j][2].typeOptions =
                    (IF HasChoices(RawColumns[j]) THEN AllOptions(RawColumns[j]) ELSE None)

\* the Airtable types of the raw columns, and the kinds of the raw values in
\* the cells of columns of type t
RawTypes == {Lookup(RawColumns[j], "type").v : j \in 1..Len(RawColumns)}
RawKinds(t) ==
    {Lookup(RowCells(RawRows[i]), Lookup(RawColumns[j], "id").v[1]).k :
        <<i, j>> \in {c \in (1..Len(RawRows)) \X (1..Len(RawColumns)) :
                         /\ Lookup(RawColumns[c[2]], "type").v = t
                         /\ Lookup(RawColumns[c[2]], "id").v[1] \in Keys(RowCells(RawRows[c[1]]))}}

\* C16: analyze visits every cell of every row once, and dtypes maps each
\* Airtable type with a cell to exactly the kinds of the raw values in the
\* cells of columns of that type; a type without cells is no key of it.
C16_DtypesAreObservedKinds ==
    out.op = "dtypes" /\ out.val.k = "dtypes" =>
        /\ DOMAIN out.val.v = {t \in RawTypes : RawKinds(t) # {}}
        /\ \A t \in DOMAIN out.val.v : out.val.v[t] = RawKinds(t)
        /\ \A i \in 1..Len(RawRows) : \A key \in Keys(RowCells(RawRows[i])) :
              Cardinality({n \in 1..Len(analyze_visits(RawRows, 1)) :
                              analyze_visits(RawRows, 1)[n] = <<i, key>>}) = 1
        /\ \A n \in 1..Len(analyze_visits(RawRows, 1)) :
              analyze_visits(RawRows, 1)[n][2]
                 \in Keys(RowCells(RawRows[analyze_visits(RawRows, 1)[n][1]]))

\* two rows whose formula cells hold a number and a text
C16_Witness ==
    /\ out.op = "dtypes"
    /\ table = TableOf(ColsGood, <<ShuffledRow, FullRow>>, TRUE)
    /\ out.val.k = "dtypes"
    /\ out.val.v[<<"formula">>] = {"int", "str"}
    /\ out.val.v[<<"multiSelect">>] = {"list"}
    /\ Len(analyze_visits(RawRows, 1)) = 7

\* C17: leaving the with-block (with or without an exception of its body)
\* and tearing the object down both call close() on the connection, and a
\* failure of close() is logged and does not leave the method.
C17_ReleaseFailureLoggedNotRaised ==
    /\ pc = "exited" => out.op = "__exit__"
    /\ pc = "deleted" => out.op = "__del__"
    /\ out.op \in {"__exit__", "__del__"} /\ IsRaised(out.arg[2]) =>
          /\ out.warnings = 1
          /\ out.val = out.arg[1]

RECURSIVE Text(_)
\* a text as one string
Text(t) == IF Len(t) = 0 THEN "" ELSE Head(t) \o Text(Tail(t))

\* instants, zones and what they are in the zone: the calendar date one day
\* later, and the time stamp
DateCases ==
    {[at |-> IsoText(2024, 1, 1, 0, 0), tz |-> "America/New_York",
      date |-> "January 01, 2024", stamp |-> "12/31/2023 07:00pm"],
     [at |-> IsoText(2024, 1, 1, 0, 0), tz |-> "UTC",
      date |-> "January 02, 2024", stamp |-> "01/01/2024 12:00am"],
     [at |-> IsoText(2024, 1, 1, 0, 0), tz |-> "Asia/Tokyo",
      date |-> "January 02, 2024", stamp |-> "01/01/2024 09:00am"],
     [at |-> IsoText(2024, 12, 31, 23, 0), tz |-> "Asia/Tokyo",
      date |-> "January 02, 2025", stamp |-> "01/01/2025 08:00am"],
     [at |-> IsoText(2024, 2, 29, 12, 5), tz |-> "UTC",
      date |-> "March 01, 2024", stamp |-> "02/29/2024 12:05pm"],
     [at |-> IsoText(2024, 2, 29, 12, 5), tz |-> "America/New_York",
      date |-> "March 01, 2024", stamp |-> "02/29/2024 07:05am"],
     [at |-> IsoText(2023, 6, 30, 20, 0), tz |-> "America/New_York",
      date |-> "July 01, 2023", stamp |-> "06/30/2023 04:00pm"]}

\* the first field of the first row of data, as one string
FirstField == Text(out.val.v[1].v[1][2].v)

\* C18 as stated: "2024-01-01T00:00:00.000Z" in a date column of a session
\* in America/New_York is decoded to "January 1, 2024", and in a formula
\* column to the time stamp of the instant in the zone, without a day added.
C18_ExampleYieldsJanuary1 ==
    /\ out.op = "data" /\ out.val.k = "list" /\ timezone = "America/New_York"
       /\ RawCell = Str(IsoText(2024, 1, 1, 0, 0)) =>
          /\ CellType = <<"date">> => FirstField = "\"January 1, 2024\""
          /\ CellType = <<"formula">> => FirstField = "12/31/2023 07:00pm"

\* C18: an instant in a date column is decoded to the calendar date, in the
\* session's zone, of the day after the instant, as month name, two-digit
\* day and year: "2024-01-01T00:00:00.000Z" in America/New_York gives
\* "January 01, 2024"; in a formula column it is decoded to the lowercase
\* MM/DD/YYYY hh:mmam/pm stamp of the instant in the zone, no day added.
C18_DateOnlyAddsOneDay ==
    out.op = "data" /\ out.val.k = "list" =>
        \A c \in DateCases :
            RawCell = Str(c.at) /\ timezone = c.tz =>
                /\ CellType = <<"date">> => FirstField = "\"" \o c.date \o "\""
                /\ CellType = <<"formula">> => FirstField = c.stamp
                /\ CellType = <<"rollup">> => FirstField = "\"" \o c.stamp \o "\""

\* the example instant in a date column, read in America/New_York
C18_Witness ==
    /\ out.op = "data"
    /\ out.val.k = "list"
    /\ timezone = "America/New_York"
    /\ CellType = <<"date">>
    /\ RawCell = Str(IsoText(2024, 1, 1, 0, 0))
    /\ FirstField = "\"January 01, 2024\""

\* some raw row has a cell in the column of this id
SomeCell(id) == \E i \in 1..Len(RawRows) : id \in Keys(RowCells(RawRows[i]))

\* a select or multiSelect cell of a column without option map, a
\* multiSelect cell with an option id the map does not have, a collaborator
\* cell of a table without user directory: the cells whose decoding raises
NoOptionMapCell == RawColumns = ColsNoOptions /\ (SomeCell("c2") \/ SomeCell("c3"))
UnmappedMultiCell == \E i \in 1..Len(RawRows) : RawRows[i] = UnmappedMultiRow
NoDirectoryCell == "appBlanket" \notin Keys(table) /\ SomeCell("c4")
\* a select cell with an option id the map does not have
UnmappedSelectCell == \E i \in 1..Len(RawRows) : RawRows[i] = UnmappedSelectRow

\* data is None, or every raw row as a record of all the fields
AllOrNothing ==
    \/ out.val = None
    \/ /\ out.val.k = "list"
       /\ Len(out.val.v) = Len(RawRows)
       /\ \A i \in 1..Len(out.val.v) : Len(out.val.v[i].v) = Len(RawColumns)

\* C19 as stated: data is None for the whole table where a select or
\* multiSelect cell has no option map or an unmapped option id, or a
\* collaborator cell has no user directory; it is never a partial list.
C19_UnmappedSelectFailsTable ==
    out.op = "data" =>
        /\ AllOrNothing
        /\ NoOptionMapCell \/ UnmappedMultiCell \/ NoDirectoryCell \/ UnmappedSelectCell
              => out.val = None

\* C19: data is None for the whole table where the decoding of a cell raises
\* (a select or multiSelect cell without option map, a multiSelect cell with
\* an unmapped option id, a collaborator cell without user directory), and
\* else the list of all rows; it is never a partial list.  A select cell
\* with an unmapped option id does not raise: its field is None.
C19_AllOrNothing ==
    out.op = "data" /\ RawColumns \in {ColsGood, ColsNoOptions} =>
        /\ AllOrNothing
        /\ NoOptionMapCell \/ UnmappedMultiCell \/ NoDirectoryCell => out.val = None
        /\ ~(NoOptionMapCell \/ UnmappedMultiCell \/ NoDirectoryCell) =>
              /\ out.val.k = "list"
              /\ \A i \in 1..Len(RawRows) :
                    RawRows[i] = UnmappedSelectRow => out.val.v[i].v[2][2] = None

\* the first row decodes, a multiSelect cell of the second raises: no rows
C19_Witness ==
    /\ out.op = "data"
    /\ table = TableOf(ColsGood, <<ShuffledRow, UnmappedMultiRow>>, TRUE)
    /\ status = "success"
    /\ out.val = None

====
